---- MODULE Spec2Model ----
(***************************************************************************)
(* Follow-up resolution (conversation_router.py), data-confidence scoring  *)
(* (validator.py), the generated answers (response_generator.py), the      *)
(* request flow (main.py), and usage tracking and the cache (database.py,  *)
(* market_data.py) of the finance assistant backend.                       *)
(*                                                                         *)
(* Python strings are sequences of one-character strings, so that          *)
(* normalisation, tokenisation, prefix tests and the regular expressions   *)
(* are computed character by character as the code computes them.  Python  *)
(* values of varying type (None, str, int, list, dict) are tagged records. *)
(***************************************************************************)
EXTENDS Integers, Sequences, FiniteSets, TLC

VARIABLES
    pc,            \* position of the caller: which call was made and how it ended
    user_text,     \* argument of resolve_followup
    last_context,  \* argument of resolve_followup (the memory record)
    stock_data,    \* argument of validate_stock_data (the bundle)
    articles,      \* argument of validate_stock_data
    now,           \* the wall clock in minutes, read by datetime.now()
    called_at,     \* the clock reading of the last call
    res,           \* value returned by the last call (PyNone before it, or if it raised)
    prev,          \* value returned by the call before the last one
    prev_args,     \* arguments and clock reading of the call before the last one
    intent,        \* the parsed intent of the request (argument of the generators)
    all_stock_data,         \* ask_question: the fetched bundles by ticker
    all_articles,           \* ask_question: the articles found by ticker
    per_ticker_validation,  \* ask_question: the validation results by ticker
    avg_confidence,         \* ask_question: the mean confidence score
    overall_confidence,     \* ask_question: the level of the mean score
    response,      \* what the generator or the request handler returned
    usage_tracking,  \* database: the rows of the table usage_tracking by identifier
    calls,           \* the number of track_usage calls made so far, by identifier
    marked,          \* whether mark_user_as_paid was called so far, by identifier
    usage,           \* what the last track_usage call returned
    last_call,       \* the last track_usage call: its identifier, its number, paid or not
    cache,           \* database: the rows of the table cache by (ticker, data_type)
    info             \* the last get_company_info call: its result, and what it did

\* the state of a request: idle while a function is called on its own
flow == <<intent, all_stock_data, all_articles, per_ticker_validation, avg_confidence,
          overall_confidence, response>>

\* the stored tables and the calls that work on them
tables == <<usage_tracking, calls, marked, usage, last_call, cache, info>>

vars == <<pc, user_text, last_context, stock_data, articles, now, called_at, res, prev,
          prev_args, flow, tables>>

-----------------------------------------------------------------------------
(* Python values *)

PyNone == [t |-> "none"]
PyStr(s) == [t |-> "str", s |-> s]
PyInt(n) == [t |-> "int", n |-> n]
PyList(l) == [t |-> "list", l |-> l]
PyDict(d) == [t |-> "dict", d |-> d]
\* the non-empty str that datetime.isoformat() gives for the minute m; aware tells
\* whether it carries a UTC offset
PyIsoStr(m, aware) == [t |-> "isostr", minute |-> m, aware |-> aware]

\* bool(v)
Truthy(v) ==
    CASE v.t = "none" -> FALSE
      [] v.t = "str" -> v.s # <<>>
      [] v.t = "isostr" -> TRUE
      [] v.t = "int" -> v.n # 0
      [] v.t = "list" -> v.l # <<>>
      [] v.t = "dict" -> DOMAIN v.d # {}

\* a or b
PyOr(a, b) == IF Truthy(a) THEN a ELSE b

\* d.get(key) and d.get(key, default) of a dict d
DictGet(d, key) == IF key \in DOMAIN d.d THEN d.d[key] ELSE PyNone
DictGetDefault(d, key, default) == IF key \in DOMAIN d.d THEN d.d[key] ELSE default

DigitChars == <<"0", "1", "2", "3", "4", "5", "6", "7", "8", "9">>

RECURSIVE NatToStr(_)
NatToStr(n) == IF n < 10 THEN <<DigitChars[n + 1]>>
               ELSE NatToStr(n \div 10) \o <<DigitChars[(n % 10) + 1]>>

\* str(v), as a character sequence
PyStrOf(v) ==
    CASE v.t = "str" -> v.s
      [] v.t = "int" -> IF v.n < 0 THEN <<"-">> \o NatToStr(-v.n) ELSE NatToStr(v.n)
      [] v.t = "none" -> <<"N", "o", "n", "e">>

-----------------------------------------------------------------------------
(* Characters and regular-expression helpers *)

LowerLetters == <<"a", "b", "c", "d", "e", "f", "g", "h", "i", "j", "k", "l", "m",
                  "n", "o", "p", "q", "r", "s", "t", "u", "v", "w", "x", "y", "z">>
UpperLetters == <<"A", "B", "C", "D", "E", "F", "G", "H", "I", "J", "K", "L", "M",
                  "N", "O", "P", "Q", "R", "S", "T", "U", "V", "W", "X", "Y", "Z">>

Range(s) == {s[i] : i \in DOMAIN s}

\* the sequence f as an explicit tuple: [i \in 1..n |-> e] alone is evaluated anew at every use
Tuple(f) == f \o <<>>

Whitespace == {" ", "\t", "\n"}
UpperSet == Range(UpperLetters)
DigitSet == Range(DigitChars)
AlnumLower == Range(LowerLetters) \cup DigitSet
\* the class [a-z0-9']
WordClass == AlnumLower \cup {"'"}
\* the class [a-z0-9'\s]
WordOrSpaceClass == WordClass \cup Whitespace
\* the regular expression class \w
ReWordChars == AlnumLower \cup UpperSet \cup {"_"}

\* str.lower(), one character
LowerChar(c) ==
    IF c \in UpperSet
    THEN LowerLetters[CHOOSE i \in DOMAIN UpperLetters : UpperLetters[i] = c]
    ELSE c

\* str.lower()
Lower(s) == Tuple([i \in DOMAIN s |-> LowerChar(s[i])])

RECURSIVE LStrip(_)
LStrip(s) == IF s # <<>> /\ Head(s) \in Whitespace THEN LStrip(Tail(s)) ELSE s

RECURSIVE RStrip(_)
RStrip(s) == IF s # <<>> /\ s[Len(s)] \in Whitespace
             THEN RStrip(SubSeq(s, 1, Len(s) - 1)) ELSE s

\* str.strip()
Strip(s) == RStrip(LStrip(s))

\* the positions 1..Len(s), in order
Positions(s) == Tuple([i \in 1..Len(s) |-> i])

\* re.sub(r"[cls]+", " ", s): every maximal run of characters of cls becomes one space
SubRuns(s, cls) ==
    LET kept == SelectSeq(Positions(s),
                          LAMBDA i : ~(s[i] \in cls /\ i > 1 /\ s[i - 1] \in cls))
    IN  Tuple([k \in 1..Len(kept) |-> IF s[kept[k]] \in cls THEN " " ELSE s[kept[k]]])

\* re.findall(r"[cls]+", s): the maximal runs of characters of cls, left to right
FindRuns(s, cls) ==
    LET starts == SelectSeq(Positions(s),
                            LAMBDA i : s[i] \in cls /\ (i = 1 \/ s[i - 1] \notin cls))
        ends == SelectSeq(Positions(s),
                          LAMBDA i : s[i] \in cls /\ (i = Len(s) \/ s[i + 1] \notin cls))
    IN  Tuple([k \in 1..Len(starts) |-> SubSeq(s, starts[k], ends[k])])

StartsWith(s, p) == Len(p) <= Len(s) /\ SubSeq(s, 1, Len(p)) = p

-----------------------------------------------------------------------------
(* Normalization utilities *)

\* the character U+2019 (right single quotation mark), one element of a text
CurlyApostrophe == "U+2019"

_normalize_text(s) ==
    LET s0 == Lower(Strip(PyOr(s, PyStr(<<>>)).s))
        s1 == Tuple([i \in DOMAIN s0 |-> IF s0[i] = CurlyApostrophe THEN "'" ELSE s0[i]])
        s2 == SubRuns(s1, Range(s1) \ WordOrSpaceClass)
        s3 == SubRuns(s2, Whitespace)
    IN  Strip(s3)

_tokens(s) == FindRuns(_normalize_text(s), WordClass)

-----------------------------------------------------------------------------
(* Continuation / ack detection *)

_ACK_PREFIXES == <<
    <<"y","e","s">>, <<"y","e","a","h">>, <<"y","e","p">>,
    <<"y","u","p">>, <<"s","u","r","e">>, <<"o","k">>,
    <<"o","k","a","y">>, <<"k">>, <<"k","k">>,
    <<"s","o","u","n","d","s"," ","g","o","o","d">>, <<"d","o"," ","t","h","a","t">>,
    <<"d","o"," ","i","t">>, <<"l","e","t","s"," ","d","o"," ","t","h","a","t">>,
    <<"l","e","t","'","s"," ","d","o"," ","t","h","a","t">>,
    <<"l","e","t","s"," ","d","o"," ","i","t">>,
    <<"l","e","t","'","s"," ","d","o"," ","i","t">>, <<"g","o"," ","a","h","e","a","d">>,
    <<"c","o","n","t","i","n","u","e">>, <<"k","e","e","p"," ","g","o","i","n","g">>,
    <<"d","i","v","e"," ","i","n">>, <<"d","i","v","e"," ","d","e","e","p","e","r">>,
    <<"l","e","t","s"," ","d","i","v","e">>, <<"l","e","t","'","s"," ","d","i","v","e">>,
    <<"r","u","n"," ","i","t">>, <<"s","o","u","n","d","s"," ","r","i","g","h","t">>,
    <<"t","h","a","t"," ","w","o","r","k","s">>, <<"f","i","n","e">>,
    <<"a","l","r","i","g","h","t">>, <<"a","l","l"," ","r","i","g","h","t">> >>

_ACK_SINGLETONS == {
    <<"y","e","s">>, <<"y","e","a","h">>, <<"y","e","p">>, <<"y","u","p">>,
    <<"s","u","r","e">>, <<"o","k">>, <<"o","k","a","y">>, <<"a","l","r","i","g","h","t">>,
    <<"g","o">>, <<"d","o">>, <<"d","o","i","t">>, <<"c","o","n","t","i","n","u","e">> }

\* the acceptance tokens of the "very short" heuristic
AckTokens == {
    <<"y","e","s">>, <<"y","e","a","h">>, <<"y","e","p">>, <<"s","u","r","e">>,
    <<"o","k">>, <<"o","k","a","y">>, <<"a","l","r","i","g","h","t">> }

is_ack_or_continue(text) ==
    LET t == _normalize_text(text)
        toks == _tokens(PyStr(t))
    IN  IF t = <<>> THEN FALSE
        ELSE IF t \in _ACK_SINGLETONS THEN TRUE
        ELSE IF \E i \in DOMAIN _ACK_PREFIXES : StartsWith(t, _ACK_PREFIXES[i]) THEN TRUE
        ELSE Len(toks) <= 4 /\ \E i \in DOMAIN toks : toks[i] \in AckTokens

-----------------------------------------------------------------------------
(* Option picking helpers *)

_ORDINAL_MAP ==
    ( <<"f","i","r","s","t">> :> 0 @@ <<"1","s","t">> :> 0 @@ <<"o","n","e">> :> 0 @@
      <<"s","e","c","o","n","d">> :> 1 @@ <<"2","n","d">> :> 1 @@ <<"t","w","o">> :> 1 @@
      <<"t","h","i","r","d">> :> 2 @@ <<"3","r","d">> :> 2 @@ <<"t","h","r","e","e">> :> 2 @@
      <<"f","o","u","r","t","h">> :> 3 @@ <<"4","t","h">> :> 3 @@ <<"f","o","u","r">> :> 3 )

OrdinalWords == DOMAIN _ORDINAL_MAP

\* the value None of an Optional[int]
NoIndex == -100

\* int(d) of a digit character
DigitValue(d) == (CHOOSE i \in DOMAIN DigitChars : DigitChars[i] = d) - 1

\* the first position at or after i of t that holds no white space
RECURSIVE SkipSpace(_, _)
SkipSpace(t, i) == IF i <= Len(t) /\ t[i] \in Whitespace THEN SkipSpace(t, i + 1) ELSE i

\* r"\b(option|choice)\s*(\d)\b" matched at position i of t: the digit's position, or 0
OptionMatchAt(t, i) ==
    LET word == /\ i + 5 <= Len(t)
                /\ SubSeq(t, i, i + 5) \in {<<"o","p","t","i","o","n">>,
                                            <<"c","h","o","i","c","e">>}
        \* \s* is greedy, and a digit is no white space: no backtracking can help
        j == SkipSpace(t, i + 6)
    IN  IF /\ word
           /\ (i = 1 \/ t[i - 1] \notin ReWordChars)
           /\ j <= Len(t) /\ t[j] \in DigitSet
           /\ (j = Len(t) \/ t[j + 1] \notin ReWordChars)
        THEN j ELSE 0

\* re.search: the leftmost match; the position of its digit, or 0 when there is none
OptionSearch(t) ==
    LET hits == {i \in DOMAIN t : OptionMatchAt(t, i) # 0}
    IN  IF hits = {} THEN 0
        ELSE OptionMatchAt(t, CHOOSE i \in hits : \A k \in hits : i <= k)

\* a pick that tries the "option N" pattern before the ordinal words
OrdinalPickOptionFirst(text) ==
    LET toks == _tokens(text)
        ords == {i \in DOMAIN toks : toks[i] \in OrdinalWords}
        t == _normalize_text(text)
        m == OptionSearch(t)
    IN  IF m # 0 /\ DigitValue(t[m]) - 1 >= 0 THEN DigitValue(t[m]) - 1
        ELSE IF ords # {}
        THEN _ORDINAL_MAP[toks[CHOOSE i \in ords : \A k \in ords : i <= k]]
        ELSE NoIndex

_ordinal_pick(text) ==
    LET toks == _tokens(text)
        ords == {i \in DOMAIN toks : toks[i] \in OrdinalWords}
        t == _normalize_text(text)
        m == OptionSearch(t)
    IN  IF ords # {}
        THEN _ORDINAL_MAP[toks[CHOOSE i \in ords : \A k \in ords : i <= k]]
        ELSE IF m # 0 /\ DigitValue(t[m]) - 1 >= 0 THEN DigitValue(t[m]) - 1
        ELSE NoIndex

\* the weights of _score_action_match
IdTokenWeight == 4
KeywordPhraseWeight == 10
KeywordTokenWeight == 3
LabelTokenWeight == 2

RECURSIVE SumSeq(_)
SumSeq(s) == IF s = <<>> THEN 0 ELSE Head(s) + SumSeq(Tail(s))

\* a score in which a full phrase hit also earns the credit of its single tokens
ScoreWithBothCredits(text, action) ==
    LET utoks == Range(_tokens(text))
        id_toks == Range(FindRuns(Lower(action.id), AlnumLower))
        kw_score(kw) ==
            LET kw_toks == Range(_tokens(PyStr(kw)))
            IN  (IF kw_toks # {} /\ kw_toks \subseteq utoks THEN KeywordPhraseWeight ELSE 0)
                + KeywordTokenWeight * Cardinality(utoks \cap kw_toks)
        label_toks == Range(_tokens(PyStr(action.label)))
    IN  IF utoks = {} THEN 0
        ELSE IdTokenWeight * Cardinality(utoks \cap id_toks)
             + SumSeq(Tuple([i \in DOMAIN action.keywords |->
                                   kw_score(action.keywords[i])]))
             + LabelTokenWeight * Cardinality(utoks \cap label_toks)

_score_action_match(text, action) ==
    LET utoks == Range(_tokens(text))
        id_toks == Range(FindRuns(Lower(action.id), AlnumLower))
        kw_score(kw) ==
            LET kw_toks == Range(_tokens(PyStr(kw)))
            IN  IF kw_toks # {} /\ kw_toks \subseteq utoks
                THEN KeywordPhraseWeight
                ELSE KeywordTokenWeight * Cardinality(utoks \cap kw_toks)
        label_toks == Range(_tokens(PyStr(action.label)))
    IN  IF utoks = {} THEN 0
        ELSE IdTokenWeight * Cardinality(utoks \cap id_toks)
             + SumSeq(Tuple([i \in DOMAIN action.keywords |->
                                   kw_score(action.keywords[i])]))
             + LabelTokenWeight * Cardinality(utoks \cap label_toks)

-----------------------------------------------------------------------------
(* Main resolver *)

FollowupAction(id, label, query, keywords) ==
    [id |-> id, label |-> label, query |-> query, keywords |-> keywords]

FollowupResolution(kind, action, clarify_prompt, confidence, reason) ==
    [kind |-> kind, action |-> action, clarify_prompt |-> clarify_prompt,
     confidence |-> confidence, reason |-> reason]

\* outcomes of a call: a returned value, or an exception that reaches the caller
Return(v) == [ret |-> v]
Raise(exc) == [exc |-> exc]
Raised(o) == "exc" \in DOMAIN o

\* what "for x in v" iterates over; a value that is not iterable raises TypeError
Iterable(v) == v.t \in {"list", "str", "dict"}
IterItems(v) ==
    CASE v.t = "list" -> v.l
      [] v.t = "str" -> Tuple([i \in DOMAIN v.s |-> PyStr(<<v.s[i]>>)])
      [] v.t = "dict" -> <<>>

\* tuple(str(x).strip() for x in kws if str(x).strip())
RECURSIVE KeywordTuple(_)
KeywordTuple(items) ==
    IF items = <<>> THEN <<>>
    ELSE LET k == Strip(PyStrOf(Head(items)))
         IN  (IF k # <<>> THEN <<k>> ELSE <<>>) \o KeywordTuple(Tail(items))

\* an entry is dropped for its id alone
EntryDroppedForId(aid, query) == aid = <<>>

\* if not aid or not query: continue
EntryDropped(aid, query) == aid = <<>> \/ query = <<>>

\* a loop that puts each action in front of those loaded before it
RECURSIVE LoadLoopNewestFirst(_, _, _)
LoadLoopNewestFirst(raw, i, acc) ==
    IF i > Len(raw) THEN Return(acc)
    ELSE LET a == raw[i]
         IN  IF a.t # "dict" THEN LoadLoopNewestFirst(raw, i + 1, acc)
             ELSE LET aid == Strip(PyStrOf(PyOr(DictGet(a, "id"), PyStr(<<>>))))
                      label == Strip(PyStrOf(PyOr(DictGet(a, "label"), PyStr(<<>>))))
                      query == Strip(PyStrOf(PyOr(DictGet(a, "query"), PyStr(<<>>))))
                      kws0 == PyOr(DictGet(a, "keywords"), PyList(<<>>))
                      kws == IF kws0.t = "str" THEN PyList(<<kws0>>) ELSE kws0
                  IN  IF EntryDropped(aid, query) THEN LoadLoopNewestFirst(raw, i + 1, acc)
                      ELSE IF ~Iterable(kws) THEN Raise("TypeError")
                      ELSE LoadLoopNewestFirst(raw, i + 1,
                               <<FollowupAction(aid, label, query,
                                                KeywordTuple(IterItems(kws)))>> \o acc)

\* the body of the loop over actions_raw, from entry i on; acc holds the actions so far
RECURSIVE LoadLoop(_, _, _)
LoadLoop(raw, i, acc) ==
    IF i > Len(raw) THEN Return(acc)
    ELSE LET a == raw[i]
         IN  IF a.t # "dict" THEN LoadLoop(raw, i + 1, acc)
             ELSE LET aid == Strip(PyStrOf(PyOr(DictGet(a, "id"), PyStr(<<>>))))
                      label == Strip(PyStrOf(PyOr(DictGet(a, "label"), PyStr(<<>>))))
                      query == Strip(PyStrOf(PyOr(DictGet(a, "query"), PyStr(<<>>))))
                      kws0 == PyOr(DictGet(a, "keywords"), PyList(<<>>))
                      kws == IF kws0.t = "str" THEN PyList(<<kws0>>) ELSE kws0
                  IN  IF EntryDropped(aid, query) THEN LoadLoop(raw, i + 1, acc)
                      ELSE IF ~Iterable(kws) THEN Raise("TypeError")
                      ELSE LoadLoop(raw, i + 1,
                               Append(acc, FollowupAction(aid, label, query,
                                                          KeywordTuple(IterItems(kws)))))

\* the stored default_action_id kept even when it is absent
DefaultIdAsStored(default_id, actions) == default_id

\* if not default_id and actions: default_id = actions[0].id
DefaultIdOf(default_id, actions) ==
    IF ~Truthy(default_id) /\ actions # <<>> THEN PyStr(actions[1].id) ELSE default_id

_load_actions_from_memory(ctx0) ==
    LET ctx == PyOr(ctx0, PyDict(<<>>))
        actions_raw == PyOr(DictGet(ctx, "next_actions"), PyList(<<>>))
        default_id == DictGet(ctx, "default_action_id")
        loaded == IF Iterable(actions_raw) THEN LoadLoop(IterItems(actions_raw), 1, <<>>)
                  ELSE Raise("TypeError")
    IN  IF Raised(loaded) THEN loaded
        ELSE Return([actions |-> loaded.ret,
                     default_id |-> DefaultIdOf(default_id, loaded.ret)])

\* x placed into the list sorted by score, highest first, behind every entry that
\* scores at least as much: list.sort(key=score, reverse=True) is stable
RECURSIVE InsertByScore(_, _)
InsertByScore(sorted, x) ==
    IF sorted = <<>> THEN <<x>>
    ELSE IF Head(sorted).score >= x.score
         THEN <<Head(sorted)>> \o InsertByScore(Tail(sorted), x)
         ELSE <<x>> \o sorted

RECURSIVE SortByScore(_, _)
SortByScore(scored, n) ==
    IF n = 0 THEN <<>> ELSE InsertByScore(SortByScore(scored, n - 1), scored[n])

\* "; ".join(f"{i+1}) {x}" for i, x in enumerate(options)), from option i on
RECURSIVE JoinOptions(_, _)
JoinOptions(options, i) ==
    IF i > Len(options) THEN <<>>
    ELSE (IF i > 1 THEN <<";", " ">> ELSE <<>>)
         \o NatToStr(i) \o <<")", " ">> \o options[i] \o JoinOptions(options, i + 1)

\* a prompt that lists every action
ClarifyPromptUncut(actions) ==
    LET options == Tuple([i \in DOMAIN actions |->
                             IF actions[i].label # <<>> THEN actions[i].label
                             ELSE actions[i].id])
    IN  <<"Q","u","i","c","k"," ","c","h","e","c","k",":"," ","w","h","i","c","h"," ",
          "o","n","e"," ","d","i","d"," ","y","o","u"," ","m","e","a","n"," ","U+2014"," ">>
        \o JoinOptions(options, 1) \o <<"?">>

\* f"Quick check: which one did you mean (U+2014) {opt_text}?"
ClarifyPrompt(actions) ==
    LET shown == SubSeq(actions, 1, IF Len(actions) < 3 THEN Len(actions) ELSE 3)
        options == Tuple([i \in DOMAIN shown |->
                             IF shown[i].label # <<>> THEN shown[i].label ELSE shown[i].id])
    IN  <<"Q","u","i","c","k"," ","c","h","e","c","k",":"," ","w","h","i","c","h"," ",
          "o","n","e"," ","d","i","d"," ","y","o","u"," ","m","e","a","n"," ","U+2014"," ">>
        \o JoinOptions(options, 1) \o <<"?">>

\* a clarification that carries the first action as a guess
ClarifyResolutionWithGuess(actions, best_score, second_score) ==
    FollowupResolution("clarify", actions[1], PyStr(ClarifyPrompt(actions)), 40,
                       [rule |-> "ambiguous", best_score |-> best_score,
                        second_score |-> second_score])

\* the result of step 4
ClarifyResolution(actions, best_score, second_score) ==
    FollowupResolution("clarify", PyNone, PyStr(ClarifyPrompt(actions)), 40,
                       [rule |-> "ambiguous", best_score |-> best_score,
                        second_score |-> second_score])

\* "if ord_idx and ord_idx < len(actions)": the index 0 counts as no index
OrdinalInBoundsTruthy(ord_idx, actions) ==
    ord_idx # NoIndex /\ 0 < ord_idx /\ ord_idx < Len(actions)

\* ord_idx is not None and 0 <= ord_idx < len(actions)
OrdinalInBounds(ord_idx, actions) ==
    ord_idx # NoIndex /\ 0 <= ord_idx /\ ord_idx < Len(actions)

\* a selection by keyword whatever the margin to the second score
StrongMatchAnyMargin(best_score, second_score) ==
    best_score >= 8 /\ best_score > second_score

\* a selection by keyword for scores above 8 alone
StrongMatchAbove8(best_score, second_score) ==
    best_score > 8 /\ best_score >= second_score + 3

\* best_score >= 8 and best_score >= (second_score + 3)
StrongMatch(best_score, second_score) ==
    best_score >= 8 /\ best_score >= second_score + 3

\* the first action taken for the default whatever default_id names
DefaultActionFirst(actions, default_id) == IF actions = <<>> THEN 0 ELSE 1

\* the position of the first action whose id is default_id, or 0 when there is none
DefaultAction(actions, default_id) ==
    LET matching == {i \in DOMAIN actions :
                        default_id.t = "str" /\ actions[i].id = default_id.s}
    IN  IF matching = {} THEN 0 ELSE CHOOSE i \in matching : \A k \in matching : i <= k

\* the steps with the acknowledgment tried before the keyword selection
ResolveStepsAckFirst(text, actions, default_id) ==
    LET ord_idx == _ordinal_pick(text)
        scored == SortByScore(Tuple([i \in DOMAIN actions |->
                                        [a |-> actions[i],
                                         score |-> _score_action_match(text, actions[i])]]),
                              Len(actions))
        best == scored[1].a
        best_score == scored[1].score
        second_score == IF Len(scored) > 1 THEN scored[2].score ELSE 0
        default == DefaultAction(actions, default_id)
    IN  IF OrdinalInBounds(ord_idx, actions)
        THEN FollowupResolution("action", actions[ord_idx + 1], PyNone, 90,
                                [rule |-> "ordinal_pick", idx |-> ord_idx])
        ELSE IF is_ack_or_continue(text) /\ Truthy(default_id)
        THEN IF default # 0
             THEN FollowupResolution("action", actions[default], PyNone, 80,
                                     [rule |-> "ack_or_continue -> default_action"])
             ELSE FollowupResolution("action", actions[1], PyNone, 70,
                      [rule |-> "ack_or_continue -> default missing -> first_action"])
        ELSE IF StrongMatch(best_score, second_score)
        THEN FollowupResolution("action", best, PyNone, 85,
                                [rule |-> "keyword_match", score |-> best_score,
                                 margin |-> best_score - second_score])
        ELSE ClarifyResolution(actions, best_score, second_score)

\* steps 1 to 4 of resolve_followup, for a non-empty list of loaded actions
ResolveSteps(text, actions, default_id) ==
    LET ord_idx == _ordinal_pick(text)
        scored == SortByScore(Tuple([i \in DOMAIN actions |->
                                        [a |-> actions[i],
                                         score |-> _score_action_match(text, actions[i])]]),
                              Len(actions))
        best == scored[1].a
        best_score == scored[1].score
        second_score == IF Len(scored) > 1 THEN scored[2].score ELSE 0
        default == DefaultAction(actions, default_id)
    IN  IF OrdinalInBounds(ord_idx, actions)
        THEN FollowupResolution("action", actions[ord_idx + 1], PyNone, 90,
                                [rule |-> "ordinal_pick", idx |-> ord_idx])
        ELSE IF StrongMatch(best_score, second_score)
        THEN FollowupResolution("action", best, PyNone, 85,
                                [rule |-> "keyword_match", score |-> best_score,
                                 margin |-> best_score - second_score])
        ELSE IF is_ack_or_continue(text) /\ Truthy(default_id)
        THEN IF default # 0
             THEN FollowupResolution("action", actions[default], PyNone, 80,
                                     [rule |-> "ack_or_continue -> default_action"])
             ELSE FollowupResolution("action", actions[1], PyNone, 70,
                      [rule |-> "ack_or_continue -> default missing -> first_action"])
        ELSE ClarifyResolution(actions, best_score, second_score)

resolve_followup(text, ctx) ==
    LET loaded == _load_actions_from_memory(ctx)
    IN  IF Raised(loaded) THEN loaded
        ELSE IF loaded.ret.actions = <<>>
        THEN Return(FollowupResolution("none", PyNone, PyNone, 0,
                                       [rule |-> "no next_actions in memory"]))
        ELSE Return(ResolveSteps(text, loaded.ret.actions, loaded.ret.default_id))

-----------------------------------------------------------------------------
(* validator.py *)

\* timedelta(minutes=20), timedelta(hours=1), timedelta(hours=24), in minutes
VeryFreshMinutes == 20
FreshMinutes == 60
SameDayMinutes == 1440

\* freshness buckets that give a price of a day or more the points of an undated price
FreshnessPointsStaleCredit(age) ==
    IF age < VeryFreshMinutes THEN [points |-> 30, missing |-> <<>>]
    ELSE IF age < FreshMinutes THEN [points |-> 25, missing |-> <<>>]
    ELSE IF age < SameDayMinutes
         THEN [points |-> 18, missing |-> <<"Price data is from earlier today">>]
    ELSE [points |-> 20, missing |-> <<"Price data is over 1 day old">>]

\* the freshness buckets of a price whose timestamp is age minutes old
FreshnessPoints(age) ==
    IF age < VeryFreshMinutes THEN [points |-> 30, missing |-> <<>>]
    ELSE IF age < FreshMinutes THEN [points |-> 25, missing |-> <<>>]
    ELSE IF age < SameDayMinutes
         THEN [points |-> 18, missing |-> <<"Price data is from earlier today">>]
    ELSE [points |-> 10, missing |-> <<"Price data is over 1 day old">>]

\* a price component that gives an undated price the points of a very fresh one
PriceComponentUndatedFull(current, clock) ==
    LET timestamp == DictGet(current, "timestamp")
        parsed == timestamp.t = "isostr" /\ ~timestamp.aware
    IN  IF ~Truthy(timestamp) THEN [points |-> 30, missing |-> <<>>]
        ELSE IF ~parsed THEN [points |-> 30, missing |-> <<>>]
        ELSE FreshnessPoints(clock - timestamp.minute)

\* the price component: current is a dict with a truthy current_price
PriceComponent(current, clock) ==
    LET timestamp == DictGet(current, "timestamp")
        \* datetime.fromisoformat raises for what is no ISO string, and subtracting an
        \* aware datetime from datetime.now() raises TypeError: the bare except has both
        parsed == timestamp.t = "isostr" /\ ~timestamp.aware
    IN  IF ~Truthy(timestamp) THEN [points |-> 20, missing |-> <<>>]
        ELSE IF ~parsed THEN [points |-> 20, missing |-> <<>>]
        ELSE FreshnessPoints(clock - timestamp.minute)

\* the company component: company is a dict with a truthy company_name
CompanyComponent(company) ==
    20 + (IF Truthy(DictGet(company, "description")) THEN 3 ELSE 0)
       + (IF Truthy(DictGet(company, "sector")) /\ Truthy(DictGet(company, "industry"))
          THEN 2 ELSE 0)

\* a historical component that leaves a limited history unnoted
HistoricalComponentUnnoted(historical) ==
    LET data_points == DictGetDefault(historical, "data_points", PyInt(0)).n
    IN  IF data_points > 20 THEN [points |-> 20, missing |-> <<>>]
        ELSE IF data_points > 5 THEN [points |-> 12, missing |-> <<>>]
        ELSE [points |-> 5, missing |-> <<"Very limited historical data">>]

\* a historical component that takes 20 data points for a full history
HistoricalComponentFrom20(historical) ==
    LET data_points == DictGetDefault(historical, "data_points", PyInt(0)).n
    IN  IF data_points >= 20 THEN [points |-> 20, missing |-> <<>>]
        ELSE IF data_points > 5
             THEN [points |-> 12, missing |-> <<"Limited historical data">>]
        ELSE [points |-> 5, missing |-> <<"Very limited historical data">>]

\* the historical component: historical is a truthy dict whose data_points compare with ints
HistoricalComponent(historical) ==
    LET data_points == DictGetDefault(historical, "data_points", PyInt(0)).n
    IN  IF data_points > 20 THEN [points |-> 20, missing |-> <<>>]
        ELSE IF data_points > 5
             THEN [points |-> 12, missing |-> <<"Limited historical data">>]
        ELSE [points |-> 5, missing |-> <<"Very limited historical data">>]

\* an article component that takes a search that was not performed for an empty result
ArticleComponentNoneAsEmpty(arts) ==
    LET article_count == IF arts.t = "none" THEN 0 ELSE Len(arts.l)
    IN  IF article_count >= 3 THEN [points |-> 30, missing |-> <<>>]
        ELSE IF article_count >= 2
             THEN [points |-> 20, missing |->
                      <<"Limited recent article coverage (only 2 articles)">>]
        ELSE IF article_count >= 1
             THEN [points |-> 10, missing |->
                      <<"Very limited article coverage (only 1 article)">>]
        ELSE [points |-> 0, missing |->
                 <<"No recent articles found from trusted sources">>]

\* the article component
ArticleComponent(arts) ==
    IF arts.t # "none"
    THEN LET article_count == Len(arts.l)
         IN  IF article_count >= 3 THEN [points |-> 30, missing |-> <<>>]
             ELSE IF article_count >= 2
                  THEN [points |-> 20, missing |->
                           <<"Limited recent article coverage (only 2 articles)">>]
             ELSE IF article_count >= 1
                  THEN [points |-> 10, missing |->
                           <<"Very limited article coverage (only 1 article)">>]
             ELSE [points |-> 0, missing |->
                      <<"No recent articles found from trusted sources">>]
    ELSE [points |-> 0, missing |-> <<"Article search not performed">>]

Min(a, b) == IF a < b THEN a ELSE b

\* a score without its cap
CapScoreNone(score) == score

\* score = min(score, 100)
CapScore(score) == Min(score, 100)

\* "stock_data.get('success') is None": a flag of False passes
FetchFailedIsNone(sd) == DictGet(sd, "success") = PyNone

\* not stock_data.get('success')
FetchFailed(sd) == ~Truthy(DictGet(sd, "success"))

\* a list of gaps created once and shared by the calls: it still holds the last result's
SharedMissing == IF res = PyNone THEN <<>> ELSE res.missing_data

\* missing = []
NewMissing == <<>>

\* levels whose HIGH starts above 80
LevelOfAbove80(score) ==
    IF score > 80 THEN "HIGH" ELSE IF score >= 50 THEN "MEDIUM" ELSE "LOW"

\* level of a capped score
LevelOf(score) == IF score >= 80 THEN "HIGH" ELSE IF score >= 50 THEN "MEDIUM" ELSE "LOW"

\* x.get(...) of a value that is truthy and no dict raises AttributeError
GetRaises(x) == Truthy(x) /\ x.t # "dict"

\* data_points > 20 raises TypeError unless data_points is a number
CompareRaises(historical) ==
    DictGetDefault(historical, "data_points", PyInt(0)).t # "int"

\* the first definition of calculate_confidence (lines 7-112); the statements after its
\* return are dead code.  clock is the value datetime.now() gives during the call.
calculate_confidence(sd, arts, clock) ==
    LET current == DictGet(sd, "current")
        company == DictGet(sd, "company")
        historical == DictGet(sd, "historical")
        has_price == Truthy(current) /\ Truthy(DictGet(current, "current_price"))
        has_company == Truthy(company) /\ Truthy(DictGet(company, "company_name"))
        price == IF has_price THEN PriceComponent(current, clock)
                 ELSE [points |-> 0, missing |-> <<"Current price not available">>]
        comp == IF has_company
                THEN [points |-> CompanyComponent(company), missing |-> <<>>]
                ELSE [points |-> 0, missing |-> <<"Company information not available">>]
        hist == IF Truthy(historical) THEN HistoricalComponent(historical)
                ELSE [points |-> 0, missing |-> <<"Historical data not available">>]
        art == ArticleComponent(arts)
        score == CapScore(price.points + comp.points + hist.points + art.points)
    IN  IF FetchFailed(sd)
        THEN Return([level |-> "LOW", score |-> 0,
                     missing |-> <<"Failed to fetch any data">>])
        ELSE IF GetRaises(current) THEN Raise("AttributeError")
        ELSE IF GetRaises(company) THEN Raise("AttributeError")
        ELSE IF GetRaises(historical) THEN Raise("AttributeError")
        ELSE IF Truthy(historical) /\ CompareRaises(historical) THEN Raise("TypeError")
        ELSE Return([level |-> LevelOf(score), score |-> score,
                     missing |-> NewMissing \o price.missing \o comp.missing \o hist.missing
                                 \o art.missing])

get_confidence_badge(level) ==
    CASE level = "HIGH" ->
            [color |-> "green", emoji |-> "green circle", css_class |-> "confidence-high",
             message |-> "High confidence - data is fresh and complete"]
      [] level = "MEDIUM" ->
            [color |-> "yellow", emoji |-> "yellow circle", css_class |-> "confidence-medium",
             message |-> "Medium confidence - some data may be incomplete"]
      [] OTHER ->
            [color |-> "red", emoji |-> "red circle", css_class |-> "confidence-low",
             message |-> "Low confidence - data is missing or outdated"]

\* ', '.join(items), as the sequence of its pieces
RECURSIVE JoinComma(_)
JoinComma(items) ==
    IF items = <<>> THEN <<>>
    ELSE IF Len(items) = 1 THEN items
    ELSE <<Head(items), ", ">> \o JoinComma(Tail(items))

\* the recommendation text, as the sequence of its pieces
_get_recommendation(level, missing) ==
    IF level = "HIGH"
    THEN <<"Data quality is excellent. Safe to provide detailed analysis.">>
    ELSE IF level = "MEDIUM"
    THEN <<"Data is acceptable but incomplete. Consider mentioning: ">>
         \o JoinComma(SubSeq(missing, 1, Min(2, Len(missing))))
    ELSE <<"Data quality is too low. Recommend user try again later or check ticker symbol.">>

\* the first definition of validate_stock_data (lines 235-269)
validate_stock_data(sd, arts, clock) ==
    LET conf == calculate_confidence(sd, arts, clock)
        current == PyOr(DictGet(sd, "current"), PyDict(<<>>))
        company == PyOr(DictGet(sd, "company"), PyDict(<<>>))
        historical == PyOr(DictGet(sd, "historical"), PyDict(<<>>))
    IN  IF Raised(conf) THEN conf
        ELSE IF current.t # "dict" \/ company.t # "dict" \/ historical.t # "dict"
        THEN Raise("AttributeError")
        ELSE Return(
            [valid |-> conf.ret.level \in {"HIGH", "MEDIUM"},
             confidence_level |-> conf.ret.level,
             confidence_score |-> conf.ret.score,
             badge |-> get_confidence_badge(conf.ret.level),
             missing_data |-> conf.ret.missing,
             has_current_price |-> Truthy(DictGet(current, "current_price")),
             has_company_info |-> Truthy(DictGet(company, "company_name")),
             has_historical_data |-> Truthy(DictGet(historical, "data_points")),
             has_articles |-> Truthy(arts) /\ Len(arts.l) > 0,
             article_count |-> IF Truthy(arts) THEN Len(arts.l) ELSE 0,
             recommendation |-> _get_recommendation(conf.ret.level, conf.ret.missing)])

-----------------------------------------------------------------------------
(* response_generator.py: next-actions derivation *)

\* str.upper(), one character
UpperChar(c) ==
    IF c \in Range(LowerLetters)
    THEN UpperLetters[CHOOSE i \in DOMAIN LowerLetters : LowerLetters[i] = c]
    ELSE c

\* str.upper()
Upper(s) == Tuple([i \in DOMAIN s |-> UpperChar(s[i])])

\* the dict literal {"id": ..., "label": ..., "query": ..., "keywords": [...]}
NextAction(id, label, query, keywords) ==
    PyDict([id |-> PyStr(id), label |-> PyStr(label), query |-> PyStr(query),
            keywords |-> PyList(Tuple([i \in DOMAIN keywords |-> PyStr(keywords[i])]))])

DeepDiveKeyRisks(t) ==
    NextAction(
        <<"d","e","e","p","_","d","i","v","e","_","k","e","y","_","r","i","s","k","s">>,
        <<"G","o"," ","d","e","e","p","e","r"," ","o","n"," ">> \o t \o
        <<" ","r","i","s","k","s"," ","a","n","d"," ","w","h","a","t"," ","w","o","u",
          "l","d"," ","b","r","e","a","k"," ","t","h","e"," ","t","h","e","s","i","s">>,
        <<"D","i","v","e"," ","d","e","e","p","e","r"," ","i","n","t","o"," ">> \o t \o
        <<":"," ","k","e","y"," ","r","i","s","k","s",","," ","m","a","i","n"," ","f",
          "a","i","l","u","r","e"," ","m","o","d","e","s",","," ","a","n","d"," ","w",
          "h","a","t"," ","w","o","u","l","d"," ","c","h","a","n","g","e"," ","y","o",
          "u","r"," ","v","i","e","w",".">>,
        << <<"r","i","s","k">>, <<"b","r","e","a","k">>,
           <<"f","a","i","l","u","r","e">>, <<"d","o","w","n","s","i","d","e">> >>)

DeepDiveEarnings(t) ==
    NextAction(
        <<"d","e","e","p","_","d","i","v","e","_","e","a","r","n","i","n","g","s">>,
        <<"D","i","v","e"," ","d","e","e","p","e","r"," ","i","n","t","o"," ">> \o t \o
        <<" ","e","a","r","n","i","n","g","s"," ","a","n","d"," ","f","o","r","w","a",
          "r","d"," ","d","r","i","v","e","r","s">>,
        <<"D","i","v","e"," ","d","e","e","p","e","r"," ","i","n","t","o"," ">> \o t \o
        <<":"," ","l","a","t","e","s","t"," ","e","a","r","n","i","n","g","s"," ","t",
          "a","k","e","a","w","a","y","s",","," ","g","u","i","d","a","n","c","e",",",
          " ","a","n","d"," ","t","h","e"," ","n","e","x","t"," ","1","-","2"," ","c",
          "a","t","a","l","y","s","t","s"," ","t","h","a","t"," ","m","a","t","t","e",
          "r",".">>,
        << <<"e","a","r","n","i","n","g","s">>, <<"g","u","i","d","a","n","c","e">>,
           <<"c","a","t","a","l","y","s","t">>, <<"q","4">>,
           <<"q","u","a","r","t","e","r">> >>)

ValuationSanityCheck(t) ==
    NextAction(
        <<"v","a","l","u","a","t","i","o","n","_","s","a","n","i","t","y","_","c","h",
          "e","c","k">>,
        <<"R","u","n"," ","a"," ","v","a","l","u","a","t","i","o","n"," ","s","a","n",
          "i","t","y","-","c","h","e","c","k"," ","o","n"," ">> \o t,
        <<"S","a","n","i","t","y","-","c","h","e","c","k"," ">> \o t \o
        <<" ","v","a","l","u","a","t","i","o","n"," ","v","s"," ","g","r","o","w","t",
          "h"," ","a","n","d"," ","r","i","s","k","s","."," ","W","h","a","t"," ","a",
          "s","s","u","m","p","t","i","o","n","s"," ","a","r","e"," ","p","r","i","c",
          "e","d"," ","i","n","?">>,
        << <<"v","a","l","u","a","t","i","o","n">>, <<"p","e">>,
           <<"m","u","l","t","i","p","l","e">>,
           <<"p","r","i","c","e","d"," ","i","n">> >>)

RegimeBreakdown(t) ==
    NextAction(
        <<"r","e","g","i","m","e","_","b","r","e","a","k","d","o","w","n">>,
        <<"B","r","e","a","k"," ">> \o t \o
        <<" ","h","i","s","t","o","r","y"," ","i","n","t","o"," ","r","e","g","i","m",
          "e","s"," ","(","r","u","n","s",","," ","d","r","a","w","d","o","w","n","s",
          ","," ","c","a","t","a","l","y","s","t","s",")">>,
        <<"B","r","e","a","k"," ","d","o","w","n"," ">> \o t \o
        <<" ","h","i","s","t","o","r","i","c","a","l"," ","p","e","r","f","o","r","m",
          "a","n","c","e"," ","i","n","t","o"," ","m","a","j","o","r"," ","r","e","g",
          "i","m","e","s",":"," ","r","u","n","-","u","p","s",","," ","d","r","a","w",
          "d","o","w","n","s",","," ","a","n","d"," ","w","h","a","t"," ","d","r","o",
          "v","e"," ","e","a","c","h",".">>,
        << <<"h","i","s","t","o","r","y">>, <<"r","e","g","i","m","e">>,
           <<"d","r","a","w","d","o","w","n">>, <<"c","y","c","l","e">> >>)

WhatMovedToday(t) ==
    NextAction(
        <<"w","h","a","t","_","m","o","v","e","d","_","t","o","d","a","y">>,
        <<"E","x","p","l","a","i","n"," ","w","h","a","t"," ","m","o","v","e","d"," ">> \o t \o
        <<" ","t","o","d","a","y">>,
        <<"W","h","a","t"," ","l","i","k","e","l","y"," ","m","o","v","e","d"," ">> \o t \o
        <<" ","t","o","d","a","y","?"," ","T","i","e"," ","p","r","i","c","e"," ","a",
          "c","t","i","o","n"," ","t","o"," ","n","e","w","s",","," ","s","e","c","t",
          "o","r"," ","m","o","v","e","s",","," ","a","n","d"," ","a","n","y"," ","k",
          "n","o","w","n"," ","c","a","t","a","l","y","s","t","s",".">>,
        << <<"t","o","d","a","y">>, <<"m","o","v","e">>, <<"n","e","w","s">>,
           <<"w","h","y">> >>)

CompareEvValuation ==
    NextAction(
        <<"c","o","m","p","a","r","e","_","e","v","_","v","a","l","u","a","t","i","o",
          "n">>,
        <<"C","o","m","p","a","r","e"," ","T","S","L","A"," ","v","a","l","u","a","t",
          "i","o","n"," ","v","s"," ","o","t","h","e","r"," ","E","V","/","a","u","t",
          "o"," ","m","a","n","u","f","a","c","t","u","r","e","r","s">>,
        <<"C","o","m","p","a","r","e"," ","T","S","L","A"," ","v","a","l","u","a","t",
          "i","o","n"," ","m","e","t","r","i","c","s"," ","a","n","d"," ","n","a","r",
          "r","a","t","i","v","e"," ","v","s"," ","m","a","j","o","r"," ","a","u","t",
          "o","/","E","V"," ","p","e","e","r","s"," ","(","G","M",","," ","F",","," ",
          "R","I","V","N",","," ","L","C","I","D",")","."," ","W","h","a","t"," ","l",
          "o","o","k","s"," ","m","o","s","t"," ","m","i","s","p","r","i","c","e","d",
          " ","a","n","d"," ","w","h","y","?">>,
        << <<"c","o","m","p","a","r","e">>, <<"e","v">>, <<"p","e","e","r","s">>,
           <<"g","m">>, <<"f","o","r","d">>, <<"r","i","v","n">>, <<"l","c","i","d">>,
           <<"v","a","l","u","a","t","i","o","n">> >>)

\* the whole list, where the code keeps its head
TopActionsUncut(actions) == actions

\* actions[:3]
TopActions(actions) == SubSeq(actions, 1, Min(Len(actions), 3))

\* x.lower() or x.upper() of a value that need not be a str
HasStrMethods(v) == v.t = "str"

\* intent0 is the argument intent
_derive_next_actions(intent0, ticker) ==
    LET query_type == PyOr(DictGet(intent0, "query_type"),
                           PyStr(<<"g","e","n","e","r","a","l">>))
        ticker_or == PyOr(ticker, PyStr(<<"U","N","K","N","O","W","N">>))
    IN  IF ~HasStrMethods(query_type) \/ ~HasStrMethods(ticker_or)
        THEN Raise("AttributeError")
        ELSE
        LET qt == Lower(query_type.s)
            t == Upper(ticker_or.s)
            universal == <<DeepDiveKeyRisks(t)>>
            typed ==
                IF qt \in {<<"o","u","t","l","o","o","k">>,
                           <<"b","u","y","_","r","e","c","o","m","m","e","n","d","a",
                             "t","i","o","n">>}
                THEN <<DeepDiveEarnings(t)>> \o universal \o <<ValuationSanityCheck(t)>>
                ELSE universal
            historical ==
                IF qt = <<"h","i","s","t","o","r","i","c","a","l","_","p","e","r","f",
                          "o","r","m","a","n","c","e">>
                THEN <<RegimeBreakdown(t)>> \o typed ELSE typed
            current ==
                IF qt = <<"c","u","r","r","e","n","t","_","p","e","r","f","o","r","m",
                          "a","n","c","e">>
                THEN <<WhatMovedToday(t)>> \o historical ELSE historical
            branded ==
                IF t = <<"T","S","L","A">> THEN current \o <<CompareEvValuation>> ELSE current
            actions == TopActions(branded)
        IN  Return([next_actions |-> PyList(actions),
                    default_action_id |->
                        IF actions # <<>> THEN actions[1].d.id
                        ELSE PyStr(<<"d","e","e","p","_","d","i","v","e","_","k","e",
                                     "y","_","r","i","s","k","s">>)])

\* ", ".join(ts), as one string
RECURSIVE JoinTickers(_)
JoinTickers(ts) ==
    IF ts = <<>> THEN <<>>
    ELSE IF Len(ts) = 1 THEN ts[1]
    ELSE ts[1] \o <<",", " ">> \o JoinTickers(Tail(ts))

\* [str(x).upper() for x in tickers if str(x).strip()]
RECURSIVE UpperTickers(_)
UpperTickers(tickers) ==
    IF tickers = <<>> THEN <<>>
    ELSE (IF Strip(PyStrOf(Head(tickers))) # <<>> THEN <<Upper(PyStrOf(Head(tickers)))>>
          ELSE <<>>) \o UpperTickers(Tail(tickers))

_derive_comparison_next_actions(tickers) ==
    LET ts == UpperTickers(PyOr(tickers, PyList(<<>>)).l)
        label == IF ts # <<>> THEN JoinTickers(ts) ELSE <<"t","h","e","s","e">>
        actions == <<
            NextAction(
                <<"p","i","c","k","_","b","e","s","t","_","b","y","_","p","r","o","f",
                  "i","l","e">>,
                <<"C","h","o","o","s","e"," ","t","h","e"," ","b","e","s","t"," ","o",
                  "f"," ">> \o label \o
                <<" ","f","o","r"," ","d","i","f","f","e","r","e","n","t"," ","i","n",
                  "v","e","s","t","o","r"," ","p","r","o","f","i","l","e","s">>,
                <<"G","i","v","e","n"," ">> \o JoinTickers(ts) \o
                <<","," ","p","i","c","k"," ","w","h","i","c","h"," ","f","i","t","s",
                  " ","b","e","s","t"," ","f","o","r",":"," ","(","1",")"," ","a","g",
                  "g","r","e","s","s","i","v","e"," ","g","r","o","w","t","h",","," ",
                  "(","2",")"," ","b","a","l","a","n","c","e","d"," ","l","o","n","g",
                  "-","t","e","r","m",","," ","(","3",")"," ","c","o","n","s","e","r",
                  "v","a","t","i","v","e","."," ","J","u","s","t","i","f","y"," ","w",
                  "i","t","h"," ","d","a","t","a",".">>,
                << <<"p","r","o","f","i","l","e">>, <<"b","e","s","t">>,
                   <<"c","o","n","s","e","r","v","a","t","i","v","e">>,
                   <<"a","g","g","r","e","s","s","i","v","e">>,
                   <<"b","a","l","a","n","c","e","d">> >>),
            NextAction(
                <<"d","e","e","p","_","d","i","v","e","_","f","i","r","s","t","_","t",
                  "i","c","k","e","r">>,
                IF ts # <<>>
                THEN <<"D","e","e","p"," ","d","i","v","e"," ">> \o ts[1] \o
                     <<" ","(","t","h","e","s","i","s",","," ","r","i","s","k","s",",",
                       " ","c","a","t","a","l","y","s","t","s",")">>
                ELSE <<"D","e","e","p"," ","d","i","v","e"," ","t","h","e"," ","f","i",
                       "r","s","t"," ","t","i","c","k","e","r">>,
                IF ts # <<>>
                THEN <<"D","e","e","p"," ","d","i","v","e"," ">> \o ts[1] \o
                     <<":"," ","t","h","e","s","i","s",","," ","r","i","s","k","s",",",
                       " ","c","a","t","a","l","y","s","t","s",","," ","a","n","d"," ",
                       "w","h","a","t"," ","m","u","s","t"," ","g","o"," ","r","i","g",
                       "h","t",".">>
                ELSE <<"D","e","e","p"," ","d","i","v","e"," ","t","h","e"," ","f","i",
                       "r","s","t"," ","t","i","c","k","e","r",":"," ","t","h","e","s",
                       "i","s",","," ","r","i","s","k","s",","," ","c","a","t","a","l",
                       "y","s","t","s",".">>,
                << <<"d","e","e","p">>, <<"d","i","v","e">>,
                   <<"t","h","e","s","i","s">>, <<"c","a","t","a","l","y","s","t">>,
                   <<"r","i","s","k">> >>),
            NextAction(
                <<"a","d","d","_","c","o","m","p","e","t","i","t","o","r">>,
                <<"A","d","d"," ","o","n","e"," ","c","o","m","p","e","t","i","t","o",
                  "r"," ","a","n","d"," ","r","e","r","u","n"," ","t","h","e"," ","c",
                  "o","m","p","a","r","i","s","o","n">>,
                IF ts # <<>>
                THEN <<"A","d","d"," ","o","n","e"," ","r","e","l","e","v","a","n","t",
                       " ","c","o","m","p","e","t","i","t","o","r"," ","t","o"," ","t",
                       "h","e"," ">> \o JoinTickers(ts) \o
                     <<" ","c","o","m","p","a","r","i","s","o","n"," ","a","n","d"," ",
                       "r","e","r","u","n"," ","t","h","e"," ","a","s","s","e","s","s",
                       "m","e","n","t",".">>
                ELSE <<"A","d","d"," ","o","n","e"," ","c","o","m","p","e","t","i","t",
                       "o","r"," ","a","n","d"," ","r","e","r","u","n"," ","t","h","e",
                       " ","c","o","m","p","a","r","i","s","o","n",".">>,
                << <<"a","d","d">>, <<"c","o","m","p","e","t","i","t","o","r">>,
                   <<"r","e","r","u","n">>,
                   <<"c","o","m","p","a","r","i","s","o","n">> >>) >>
    IN  Return([next_actions |-> PyList(actions), default_action_id |-> actions[1].d.id])

-----------------------------------------------------------------------------
(* response_generator.py: the answers *)

\* a dict with insertion order, as the sequence of its items
DictKeys(d) == Tuple([i \in DOMAIN d |-> d[i].key])

\* what client.messages.create does: it returns a text, or raises
LlmOutcomes == {"text", "exception"}

\* the dict returned from the except branch of either generator
GenerationFailed ==
    [success |-> FALSE, error |-> "Failed to generate", confidence |-> "LOW",
     confidence_score |-> 0]

\* tickers[0] if tickers else intent.get("ticker", "UNKNOWN")
FirstTicker(intent0) ==
    LET tickers == PyOr(DictGetDefault(intent0, "tickers", PyList(<<>>)), PyList(<<>>))
    IN  IF Truthy(tickers) THEN tickers.l[1]
        ELSE DictGetDefault(intent0, "ticker", PyStr(<<"U","N","K","N","O","W","N">>))

\* generate_response(intent, stock_data, articles, validation): sd and arts only feed
\* the prompt; llm is what the model call does; badge, sources and tokens_used are
\* left out of the returned dict
generate_response(intent0, sd, arts, validation, llm) ==
    LET ticker == FirstTicker(intent0)
        derived == _derive_next_actions(intent0, ticker)
    IN  IF llm = "exception" \/ Raised(derived) THEN GenerationFailed
        ELSE [success |-> TRUE,
              answer |-> "narrative",
              confidence |-> validation.confidence_level,
              confidence_score |-> validation.confidence_score,
              ticker |-> ticker,
              query_type |-> DictGet(intent0, "query_type"),
              next_actions |-> derived.ret.next_actions,
              default_action_id |-> derived.ret.default_action_id]

\* intent.get("question") or intent.get("original_question") or
\* intent.get("raw_question")
HasQuestion(intent0) ==
    \E key \in {"question", "original_question", "raw_question"} :
        Truthy(DictGet(intent0, key))

\* generate_comparison_response(intent, all_stock_data, all_articles,
\* overall_confidence, confidence_score): ', '.join(tickers) takes str keys alone, and
\* tickers[-1] is read of an empty list when the intent holds no question
generate_comparison_response(intent0, stock_dict, articles_dict, level, score, llm) ==
    LET tickers == DictKeys(stock_dict)
        derived == _derive_comparison_next_actions(PyList(tickers))
    IN  IF \E i \in DOMAIN tickers : tickers[i].t # "str" THEN Raise("TypeError")
        ELSE IF tickers = <<>> /\ ~HasQuestion(intent0) THEN Raise("IndexError")
        ELSE IF llm = "exception" THEN Return(GenerationFailed)
        ELSE Return([success |-> TRUE,
                     answer |-> "narrative",
                     confidence |-> level,
                     confidence_score |-> score,
                     tickers |-> tickers,
                     next_actions |-> derived.ret.next_actions,
                     default_action_id |-> derived.ret.default_action_id])

-----------------------------------------------------------------------------
(* database.py: usage tracking *)

FREE_LIMIT == 5

\* fetchone() of an identifier without a row
NoRow == [t |-> "none"]

\* a row of usage_tracking (first_used and last_used are written and never read)
UsageRow(count, is_paid) == [t |-> "row", count |-> count, is_paid |-> is_paid]

\* the connection of track_usage and mark_user_as_paid: its statements read and write
\* the stored table, and commit() makes the writes lasting
_get_db(table) == table

\* a limit that is hit by the last free request already
LimitHitAtLimit(count, is_paid) == count >= FREE_LIMIT /\ ~is_paid

\* limit_hit = count > FREE_LIMIT and not is_paid
LimitHit(count, is_paid) == count > FREE_LIMIT /\ ~is_paid

\* track_usage: the table after the call, and the dict returned
track_usage(identifier, table) ==
    LET conn == _get_db(table)
        row == conn[identifier]
        count == IF row.t = "row" THEN row.count + 1 ELSE 1
        is_paid == IF row.t = "row" THEN row.is_paid ELSE FALSE
    IN  [table |-> [conn EXCEPT ![identifier] = UsageRow(count, is_paid)],
         ret |-> [count |-> count,
                  limit_hit |-> LimitHit(count, is_paid),
                  is_paid |-> is_paid,
                  remaining |-> IF ~is_paid
                                THEN (IF FREE_LIMIT - count > 0 THEN FREE_LIMIT - count
                                      ELSE 0)
                                ELSE -1]]

\* mark_user_as_paid: the table after the call, and the value returned
mark_user_as_paid(identifier, table) ==
    LET conn == _get_db(table)
        row == conn[identifier]
    IN  [table |-> [conn EXCEPT ![identifier] =
                        IF row.t = "row" THEN UsageRow(row.count, TRUE)
                        ELSE UsageRow(0, TRUE)],
         ret |-> TRUE]

-----------------------------------------------------------------------------
(* database.py: the cache; market_data.py: get_company_info *)

\* timedelta(days=1), the freshness of a data type that FRESHNESS does not name, in minutes
DefaultFreshness == 1440

\* the freshness rules, in minutes
FRESHNESS ==
    [realtime |-> 15, daily |-> 1440, weekly |-> 7 * 1440, monthly |-> 30 * 1440,
     articles |-> 7 * 1440, historical |-> 3650 * 1440]

\* FRESHNESS.get(data_type, timedelta(days=1))
FreshnessOf(data_type) ==
    IF data_type \in DOMAIN FRESHNESS THEN FRESHNESS[data_type] ELSE DefaultFreshness

\* fetchone() of a key without a row
NoEntry == [t |-> "none"]

\* a row of the table cache; data is what json.loads gives back of json.dumps(data), the
\* same dict for a dict of strings and None
CacheEntry(data, timestamp) == [t |-> "entry", data |-> data, timestamp |-> timestamp]

\* get_cached_data: the cached data when its age is below the freshness of the data
\* type, None for no row and for a stale one
get_cached_data(ticker, data_type, table, clock) ==
    LET row == table[<<Upper(ticker), data_type>>]
    IN  IF row.t = "none" THEN PyNone
        ELSE LET age == clock - row.timestamp.minute
             IN  IF age < FreshnessOf(data_type) THEN row.data ELSE PyNone

\* cache_data: INSERT OR REPLACE of the row, stamped datetime.now().isoformat()
cache_data(ticker, data_type, data, table, clock) ==
    [table EXCEPT ![<<Upper(ticker), data_type>>] = CacheEntry(data, PyIsoStr(clock, FALSE))]

\* what the request to the provider comes to: an overview, a rate-limit note, a body
\* without a Symbol, an exception
ProviderOutcomes == {"overview", "note", "no_symbol", "exception"}

\* the dict that get_company_info builds of an overview
CompanyData(ticker, clock) ==
    PyDict([ticker |-> PyStr(ticker),
            company_name |-> PyStr(<<"T","e","s","l","a">>),
            sector |-> PyNone,
            timestamp |-> PyIsoStr(clock, FALSE)])

\* get_company_info: the value returned, the table after the call, and whether the
\* provider was asked
get_company_info(ticker0, table, clock, provider) ==
    LET ticker == Upper(ticker0)
        cached == get_cached_data(ticker, "company_info", table, clock)
        data == CompanyData(ticker, clock)
    IN  IF Truthy(cached)
        THEN [ret |-> cached, table |-> table, fetched |-> FALSE]
        ELSE IF provider = "overview"
        THEN [ret |-> data,
              table |-> cache_data(ticker, "company_info", data, table, clock),
              fetched |-> TRUE]
        ELSE [ret |-> PyNone, table |-> table, fetched |-> TRUE]

-----------------------------------------------------------------------------
(* The inputs of resolve_followup *)

\* bounds of the inputs
MaxWords == 2
MaxActions == 3

SeqsUpTo(S, n) == UNION {[1..k -> S] : k \in 0..n}

\* " ".join(words)
RECURSIVE JoinWords(_)
JoinWords(words) ==
    IF words = <<>> THEN <<>>
    ELSE IF Len(words) = 1 THEN words[1]
    ELSE words[1] \o <<" ">> \o JoinWords(Tail(words))

Vocabulary == {
    <<"s","e","c","o","n","d">>, <<"o","p","t","i","o","n">>, <<"2">>,
    <<"y","e","a","h">>, <<"e","a","r","n","i","n","g","s">>,
    <<"r","i","s","k">>, <<"d","e","e","p">>, <<"d","i","v","e">> }

\* every text of at most MaxWords words of the vocabulary
WordTexts == {PyStr(JoinWords(ws)) : ws \in SeqsUpTo(Vocabulary, MaxWords)}

\* texts as users type them: capitals, punctuation, white space, no text at all
CoreTexts == {PyNone} \cup {PyStr(s) : s \in {
    <<>>,
    <<"t","h","e"," ","f","i","r","s","t"," ","o","n","e"," ","p","l","e","a","s","e">>,
    <<"y","e","a","h"," ","d","o"," ","t","h","a","t">>,
    <<"Y","e","a","h",","," ","d","o"," ","t","h","a","t","!">>,
    <<"O","p","t","i","o","n"," ","2",".">>,
    <<"f","o","u","r","t","h"," ","o","p","t","i","o","n"," ","2">>,
    <<"c","h","o","i","c","e"," ","1">>,
    <<"o","p","t","i","o","n","1">>,
    <<"o","p","t","i","o","n"," ","1","2">>,
    <<"o","p","t","i","o","n"," ","0">>,
    <<"f","i","r","s","t">>,
    <<" "," ","O","K"," ","\t">>,
    <<"L","e","t","U+2019","s"," ","d","o"," ","i","t">>,
    <<"y","e","a","h"," ","d","e","e","p"," ","d","i","v","e">>,
    <<"f","i","r","s","t"," ","d","e","e","p"," ","d","i","v","e">>,
    <<"d","e","e","p"," ","d","i","v","e">>,
    <<"e","a","r","n","i","n","g","s">>,
    <<"k","i","l","o","w","a","t","t">>,
    <<"y","e","s","t","e","r","d","a","y">>,
    <<"t","h","i","r","d">>,
    <<"f","o","u","r","t","h">>,
    <<"d","o"," ","t","h","a","t">>,
    <<"s","u","r","e"," ","t","h","i","n","g">>,
    <<"d","o"," ","t","h","e"," ","r","i","s","k"," ","o","n","e">> }}

\* the texts that are tried against every list of entries
ListTexts == {PyNone} \cup {PyStr(s) : s \in {
    <<>>,
    <<"t","h","e"," ","f","i","r","s","t"," ","o","n","e"," ","p","l","e","a","s","e">>,
    <<"y","e","a","h"," ","d","o"," ","t","h","a","t">>,
    <<"O","p","t","i","o","n"," ","2",".">>,
    <<"f","o","u","r","t","h"," ","o","p","t","i","o","n"," ","2">>,
    <<"y","e","a","h"," ","d","e","e","p"," ","d","i","v","e">>,
    <<"f","i","r","s","t"," ","d","e","e","p"," ","d","i","v","e">>,
    <<"d","e","e","p"," ","d","i","v","e">>,
    <<"e","a","r","n","i","n","g","s">>,
    <<"t","h","i","r","d">>,
    <<"d","o"," ","t","h","e"," ","r","i","s","k"," ","o","n","e">> }}

\* stored entries of next_actions: two that the loader drops and three valid ones
JunkEntry == PyInt(7)
BlankQueryEntry ==
    PyDict([id |-> PyStr(<<"x","1">>), query |-> PyStr(<<" ">>), keywords |-> PyInt(5)])
EarningsEntry ==
    PyDict([id |-> PyStr(<<" ","d","e","e","p","_","d","i","v","e","_",
                           "e","a","r","n","i","n","g","s">>),
            label |-> PyStr(<<"E","a","r","n","i","n","g","s"," ","d","i","v","e">>),
            query |-> PyStr(<<"q">>),
            keywords |-> PyList(<<PyStr(<<"e","a","r","n","i","n","g","s">>),
                                  PyStr(<<"d","e","e","p"," ","d","i","v","e">>)>>)])
RisksEntry ==
    PyDict([id |-> PyStr(<<"d","e","e","p","_","d","i","v","e","_","k","e","y","_",
                           "r","i","s","k","s">>),
            query |-> PyStr(<<"q">>),
            keywords |-> PyStr(<<"r","i","s","k">>)])
ValueEntry ==
    PyDict([id |-> PyStr(<<"d","i","v","e">>),
            label |-> PyStr(<<"V","a","l","u","e">>),
            query |-> PyStr(<<"q">>),
            keywords |-> PyList(<<PyStr(<<"d","e","e","p"," ","v","a","l","u","e">>),
                                  PyNone>>)])
\* a valid entry whose keywords field is a number
NumberKeywordsEntry ==
    PyDict([id |-> PyStr(<<"b">>), label |-> PyStr(<<"B">>), query |-> PyStr(<<"q">>),
            keywords |-> PyInt(5)])

EntryPool == {BlankQueryEntry, EarningsEntry, RisksEntry, ValueEntry}

RisksId == PyStr(<<"d","e","e","p","_","d","i","v","e","_","k","e","y","_","r","i","s","k","s">>)
DefaultIds == {PyNone, RisksId}

Memory(next_actions, default_action_id) ==
    PyDict([next_actions |-> next_actions, default_action_id |-> default_action_id])

\* memory records of unexpected shape
OddContexts ==
    { PyNone,
      PyDict([ticker |-> PyStr(<<"T">>)]),
      Memory(PyNone, RisksId),
      Memory(PyInt(5), PyNone),
      Memory(PyStr(<<"a","b","c">>), PyNone),
      Memory(PyList(<<NumberKeywordsEntry>>), PyNone),
      Memory(PyList(<<EarningsEntry, NumberKeywordsEntry>>), PyNone),
      Memory(PyList(<<BlankQueryEntry, JunkEntry, RisksEntry>>), PyInt(3)) }

\* every memory record of at most MaxActions entries of the pool
ListContexts ==
    {Memory(PyList(l), d) : l \in SeqsUpTo(EntryPool, MaxActions), d \in DefaultIds}

CoreContexts ==
    OddContexts \cup
    { Memory(PyList(<<EarningsEntry, RisksEntry>>), PyNone),
      Memory(PyList(<<EarningsEntry, RisksEntry>>), RisksId),
      Memory(PyList(<<RisksEntry, ValueEntry>>), PyNone),
      Memory(PyList(<<EarningsEntry, RisksEntry, ValueEntry>>), RisksId),
      Memory(PyList(<<JunkEntry, EarningsEntry, RisksEntry>>), PyStr(<<"g","o","n","e">>)),
      Memory(PyList(<<ValueEntry>>), PyNone),
      Memory(PyList(<<EarningsEntry, RisksEntry, ValueEntry, EarningsEntry>>), PyNone) }

-----------------------------------------------------------------------------
(* The inputs of validate_stock_data *)

MaxArticles == 4
MaxTicks == 2
\* the clock reading of the initial states
Epoch == 2880

PyTrue == PyInt(1)
PyFalse == PyInt(0)
NotAvailable == PyStr(<<"n","/","a">>)

\* ages, in minutes at Epoch, of the price timestamps
PriceAges == {-5, 0, 10, 19, 20, 59, 60, 1439, 1440, 2880}
IsoTimestamps == {PyIsoStr(Epoch - a, FALSE) : a \in PriceAges}
OddTimestamps == {PyNone, PyStr(<<>>), NotAvailable, PyIsoStr(Epoch, TRUE), PyInt(5)}

Currents ==
    {PyNone, NotAvailable, PyDict([change |-> PyInt(1)])}
    \cup {PyDict([current_price |-> PyInt(185), timestamp |-> ts]) :
             ts \in IsoTimestamps \cup OddTimestamps}
    \cup {PyDict([current_price |-> p, timestamp |-> ts]) :
             p \in {PyNone, PyInt(0)}, ts \in {PyNone, PyIsoStr(Epoch - 10, FALSE)}}

SomeText == PyStr(<<"T">>)
Companies ==
    {PyNone, NotAvailable,
     PyDict([company_name |-> PyNone, description |-> PyNone,
             sector |-> PyNone, industry |-> PyNone]),
     PyDict([company_name |-> PyStr(<<>>), description |-> SomeText,
             sector |-> SomeText, industry |-> SomeText])}
    \cup {PyDict([company_name |-> SomeText, description |-> d,
                  sector |-> si[1], industry |-> si[2]]) :
             d \in {PyNone, SomeText},
             si \in {<<PyNone, PyNone>>, <<SomeText, PyNone>>, <<SomeText, SomeText>>}}

Historicals ==
    {PyNone, NotAvailable, PyDict(<<>>), PyDict([total_return |-> PyInt(-13)])}
    \cup {PyDict([data_points |-> v]) :
             v \in {PyNone, NotAvailable} \cup {PyInt(n) : n \in {5, 6, 20, 21, 30, 50}}}

Article == PyDict([title |-> SomeText])
ArticleLists == {PyNone} \cup {PyList([i \in 1..k |-> Article]) : k \in 0..MaxArticles}

Bundles ==
    {PyDict([success |-> ok, current |-> c, company |-> co, historical |-> h]) :
        ok \in {PyTrue, PyFalse}, c \in Currents, co \in Companies, h \in Historicals}

-----------------------------------------------------------------------------
(* The inputs of the generators and of a request *)

\* the longest list of tickers
MaxTickers == 2

Tsla == PyStr(<<"T","S","L","A">>)
Aapl == PyStr(<<"A","A","P","L">>)
Nvda == PyStr(<<"N","V","D","A">>)
Comparison == PyStr(<<"c","o","m","p","a","r","i","s","o","n">>)
Outlook == PyStr(<<"o","u","t","l","o","o","k">>)

QueryTypes ==
    {PyNone, PyInt(5), Outlook, Comparison,
     PyStr(<<"B","u","y","_","R","e","c","o","m","m","e","n","d","a","t","i","o","n">>),
     PyStr(<<"h","i","s","t","o","r","i","c","a","l","_","p","e","r","f","o","r","m",
             "a","n","c","e">>),
     PyStr(<<"c","u","r","r","e","n","t","_","p","e","r","f","o","r","m","a","n","c",
             "e">>)}

\* values of intent["ticker"], read when the intent lists no tickers
TickerFields == {PyNone, PyStr(<<>>), PyInt(5), PyStr(<<"t","s","l","a">>), Aapl}

SingleIntents ==
    {PyDict([query_type |-> q, tickers |-> PyList(<<t>>)]) :
        q \in QueryTypes, t \in {Tsla, Aapl}}
    \cup {PyDict([query_type |-> q, ticker |-> f]) : q \in QueryTypes, f \in TickerFields}
    \cup {PyDict([query_type |-> q]) : q \in QueryTypes}

ComparisonIntents ==
    {PyDict([query_type |-> Comparison]),
     PyDict([query_type |-> Comparison, question |-> SomeText])}

\* the sequences of at most n different members of pool
DistinctLists(pool, n) ==
    {Tuple(l) : l \in {f \in UNION {[1..k -> pool] : k \in 0..n} :
                          \A i, j \in DOMAIN f : i # j => f[i] # f[j]}}

\* what get_current_price, get_company_info and get_historical_data give at the
\* minute clock: None when the fetch fails
FetchedCurrent(clock) ==
    PyDict([current_price |-> PyInt(185), timestamp |-> PyIsoStr(clock, FALSE)])
FetchedCompany ==
    PyDict([company_name |-> SomeText, description |-> SomeText, sector |-> SomeText,
            industry |-> SomeText])
FetchedHistorical == PyDict([data_points |-> PyInt(50)])

\* the blocks that one get_stock_data call fetched
FetchOutcomes(clock) ==
    {[current |-> PyNone, company |-> FetchedCompany, historical |-> PyNone],
     [current |-> FetchedCurrent(clock), company |-> PyNone, historical |-> PyNone],
     [current |-> FetchedCurrent(clock), company |-> FetchedCompany,
      historical |-> PyNone],
     [current |-> FetchedCurrent(clock), company |-> FetchedCompany,
      historical |-> FetchedHistorical]}

\* get_stock_data(ticker, include_historical=True), given what was fetched; the errors
\* list is left out
get_stock_data(ticker, fetched) ==
    PyDict([ticker |-> PyStr(Upper(ticker.s)),
            success |-> IF Truthy(fetched.current) THEN PyTrue ELSE PyFalse,
            current |-> fetched.current,
            historical |-> fetched.historical,
            company |-> fetched.company])

\* what search_stock_articles gives
FoundArticles == {PyList(<<>>), PyList([i \in 1..MaxArticles |-> Article])}

\* the generators are called for bundles as they are fetched
AnswerBundles == {get_stock_data(Tsla, f) : f \in FetchOutcomes(Epoch)}

\* the keys of the bundles handed to the comparison generator
TickerKeys == {Tsla, PyStr(<<"a","a","p","l">>), PyStr(<<" ">>), PyNone}

StockDataDicts ==
    {Tuple([i \in DOMAIN keys |->
               [key |-> keys[i],
                value |-> get_stock_data(Tsla, CHOOSE f \in FetchOutcomes(Epoch) :
                                                  Truthy(f.historical))]]) :
        keys \in DistinctLists(TickerKeys, MaxTickers)}

\* what the user writes after an answer
FollowupTexts ==
    {PyStr(<<"y","e","s">>),
     PyStr(<<"t","h","e"," ","s","e","c","o","n","d"," ","o","n","e">>),
     PyStr(<<"w","h","a","t"," ","a","r","e"," ","t","h","e"," ","r","i","s","k","s">>),
     PyStr(<<"v","a","l","u","a","t","i","o","n">>),
     PyStr(<<"c","o","m","p","a","r","e">>),
     PyStr(<<"b","a","n","a","n","a">>)}

\* what parse_intent returns: no success, or up to three supported tickers
ParsedIntents ==
    {PyDict([success |-> PyFalse, tickers |-> PyList(<<>>), confidence |-> PyInt(0)]),
     PyDict([success |-> PyFalse, tickers |-> PyList(<<Tsla>>),
             confidence |-> PyInt(60)])}
    \cup {PyDict([success |-> PyTrue, tickers |-> PyList(ts), query_type |-> q,
                  confidence |-> PyInt(90)]) :
             ts \in DistinctLists({Tsla, Aapl, Nvda}, MaxTickers) \ {<<>>},
             q \in {Outlook, Comparison}}

-----------------------------------------------------------------------------
(* The inputs of the database calls *)

\* the track_usage calls of one identifier
MaxCalls == 7
\* the days that the clock runs on after the first call
MaxCacheDays == 31

\* client addresses
Identifiers == {"203.0.113.7", "198.51.100.2"}

\* one ticker, as it is typed
CompanyTickers == {<<"t","s","l","a">>, <<"T","S","L","A">>}
CacheKeys == {<<Upper(t), "company_info">> : t \in CompanyTickers}

\* the clock moves on by twelve hours during the first two days and by a day afterwards
ClockStep(clock) ==
    IF clock - Epoch < 2 * DefaultFreshness THEN DefaultFreshness \div 2
    ELSE DefaultFreshness

-----------------------------------------------------------------------------
(* The calls *)

\* no request is under way
FlowIdle ==
    /\ intent = PyNone
    /\ all_stock_data = <<>>
    /\ all_articles = <<>>
    /\ per_ticker_validation = <<>>
    /\ avg_confidence = 0
    /\ overall_confidence = "unset"
    /\ response = PyNone

\* the tables are empty and no call was made on them
TablesIdle ==
    /\ usage_tracking = [id \in Identifiers |-> NoRow]
    /\ calls = [id \in Identifiers |-> 0]
    /\ marked = [id \in Identifiers |-> FALSE]
    /\ usage = PyNone
    /\ last_call = PyNone
    /\ cache = [key \in CacheKeys |-> NoEntry]
    /\ info = PyNone

InitRouter ==
    /\ pc = "call_resolve"
    /\ \/ user_text \in WordTexts \cup CoreTexts /\ last_context \in CoreContexts
       \/ user_text \in ListTexts /\ last_context \in ListContexts
    /\ stock_data = PyNone
    /\ articles = PyNone
    /\ now = Epoch
    /\ called_at = Epoch
    /\ res = PyNone
    /\ prev = PyNone
    /\ prev_args = PyNone
    /\ FlowIdle
    /\ TablesIdle

InitScorer ==
    /\ pc = "call_validate"
    /\ stock_data \in Bundles
    /\ articles \in ArticleLists
    /\ user_text = PyNone
    /\ last_context = PyNone
    /\ now = Epoch
    /\ called_at = Epoch
    /\ res = PyNone
    /\ prev = PyNone
    /\ prev_args = PyNone
    /\ FlowIdle
    /\ TablesIdle

Init == InitRouter \/ InitScorer

\* the caller receives the outcome o of a call: to is its position after a return
Receive(outcome, to, raised) ==
    LET o == outcome
    IN  /\ pc' = IF Raised(o) THEN raised ELSE to
        /\ res' = IF Raised(o) THEN PyNone ELSE o.ret

\* res = resolve_followup(user_text, last_context)
ResolveFollowup ==
    /\ pc = "call_resolve"
    /\ Receive(resolve_followup(user_text, last_context), "resolve_returned", "resolve_raised")
    /\ UNCHANGED <<user_text, last_context, stock_data, articles, now, called_at, prev,
                   prev_args>>
    /\ UNCHANGED flow
    /\ UNCHANGED tables

\* the same call once more, with the same arguments
ResolveFollowupAgain ==
    /\ pc = "resolve_returned"
    /\ prev' = res
    /\ prev_args' = [user_text |-> user_text, last_context |-> last_context]
    /\ Receive(resolve_followup(user_text, last_context), "resolve_repeated", "resolve_raised")
    /\ UNCHANGED <<user_text, last_context, stock_data, articles, now, called_at>>
    /\ UNCHANGED flow
    /\ UNCHANGED tables

\* res = validate_stock_data(stock_data, articles)
ValidateStockData ==
    /\ pc = "call_validate"
    /\ Receive(validate_stock_data(stock_data, articles, now),
               "validate_returned", "validate_raised")
    /\ called_at' = now
    /\ UNCHANGED <<user_text, last_context, stock_data, articles, now, prev, prev_args>>
    /\ UNCHANGED flow
    /\ UNCHANGED tables

\* a minute passes between two calls
AdvanceClock ==
    /\ pc = "validate_returned"
    /\ now < Epoch + MaxTicks
    /\ now' = now + 1
    /\ UNCHANGED <<pc, user_text, last_context, stock_data, articles, called_at, res, prev,
                   prev_args>>
    /\ UNCHANGED flow
    /\ UNCHANGED tables

\* the same call once more, with the same arguments
ValidateStockDataAgain ==
    /\ pc = "validate_returned"
    /\ prev' = res
    /\ prev_args' = [stock_data |-> stock_data, articles |-> articles, now |-> called_at]
    /\ Receive(validate_stock_data(stock_data, articles, now),
               "validate_repeated", "validate_raised")
    /\ called_at' = now
    /\ UNCHANGED <<user_text, last_context, stock_data, articles, now>>
    /\ UNCHANGED flow
    /\ UNCHANGED tables

\* the price timestamp of a bundle, PyNone when it has no price block
PriceTimestamp(sd) ==
    IF DictGet(sd, "current").t = "dict"
    THEN DictGet(DictGet(sd, "current"), "timestamp") ELSE PyNone

HasAge(sd) == PriceTimestamp(sd).t = "isostr" /\ ~PriceTimestamp(sd).aware

\* the bundle sd with the price timestamp ts
Restamped(sd, ts) ==
    PyDict([sd.d EXCEPT !.current = PyDict([@.d EXCEPT !.timestamp = ts])])

\* a call for a bundle that differs from the last one in the price timestamp alone
ValidateRestamped ==
    /\ pc = "validate_returned"
    /\ HasAge(stock_data)
    /\ \E ts \in IsoTimestamps :
          /\ ts.minute < PriceTimestamp(stock_data).minute
          /\ stock_data' = Restamped(stock_data, ts)
          /\ Receive(validate_stock_data(Restamped(stock_data, ts), articles, now),
                     "validate_restamped", "validate_raised")
    /\ prev' = res
    /\ prev_args' = [stock_data |-> stock_data, articles |-> articles, now |-> called_at]
    /\ called_at' = now
    /\ UNCHANGED <<user_text, last_context, articles, now>>
    /\ UNCHANGED flow
    /\ UNCHANGED tables

NextRouter == ResolveFollowup \/ ResolveFollowupAgain

NextScorer ==
    ValidateStockData \/ AdvanceClock \/ ValidateStockDataAgain \/ ValidateRestamped

Next == NextRouter \/ NextScorer

SpecRouter == InitRouter /\ [][NextRouter]_vars

\* one call of resolve_followup, for the properties of a single call
NextResolve == ResolveFollowup

SpecResolve == InitRouter /\ [][NextResolve]_vars

SpecScorer == InitScorer /\ [][NextScorer]_vars

Spec == Init /\ [][Next]_vars

-----------------------------------------------------------------------------
(* An answer and the follow-up to it *)

\* the arguments of a generator call: a validated bundle for generate_response, the
\* bundles by ticker and their overall confidence for generate_comparison_response
InitAnswer ==
    /\ \/ /\ pc = "call_validate"
          /\ intent \in SingleIntents
          /\ stock_data \in AnswerBundles
          /\ articles \in FoundArticles
          /\ all_stock_data = <<>>
          /\ avg_confidence = 0
          /\ overall_confidence = "unset"
       \/ /\ pc = "call_generate_comparison"
          /\ intent \in ComparisonIntents
          /\ stock_data = PyNone
          /\ articles = PyNone
          /\ all_stock_data \in StockDataDicts
          /\ \E overall \in {<<30, "LOW">>, <<100, "HIGH">>} :
                /\ avg_confidence = overall[1]
                /\ overall_confidence = overall[2]
    /\ all_articles = <<>>
    /\ per_ticker_validation = <<>>
    /\ response = PyNone
    /\ user_text = PyNone
    /\ last_context = PyNone
    /\ now = Epoch
    /\ called_at = Epoch
    /\ res = PyNone
    /\ prev = PyNone
    /\ prev_args = PyNone
    /\ TablesIdle

\* response = generate_response(intent, stock_data, articles, validation)
GenerateResponse ==
    /\ pc = "validate_returned"
    /\ intent # PyNone
    /\ \E llm \in LlmOutcomes :
          response' = generate_response(intent, stock_data, articles, res, llm)
    /\ pc' = "generate_returned"
    /\ UNCHANGED <<user_text, last_context, stock_data, articles, now, called_at, res,
                   prev, prev_args, intent, all_stock_data, all_articles,
                   per_ticker_validation, avg_confidence, overall_confidence>>
    /\ UNCHANGED tables

\* response = generate_comparison_response(intent, all_stock_data, all_articles,
\*                                         overall_confidence, avg_confidence)
GenerateComparisonResponse ==
    /\ pc = "call_generate_comparison"
    /\ \E llm \in LlmOutcomes :
          LET o == generate_comparison_response(intent, all_stock_data, all_articles,
                                                overall_confidence, avg_confidence, llm)
          IN  /\ pc' = IF Raised(o) THEN "generate_raised" ELSE "generate_returned"
              /\ response' = IF Raised(o) THEN PyNone ELSE o.ret
    /\ UNCHANGED <<user_text, last_context, stock_data, articles, now, called_at, res,
                   prev, prev_args, intent, all_stock_data, all_articles,
                   per_ticker_validation, avg_confidence, overall_confidence>>
    /\ UNCHANGED tables

\* the next actions of a generated answer are kept as the memory record, and the user
\* writes a follow-up
StoreAnswer ==
    /\ pc = "generate_returned"
    /\ response.success
    /\ last_context' = Memory(response.next_actions, response.default_action_id)
    /\ \E text \in FollowupTexts : user_text' = text
    /\ pc' = "call_resolve"
    /\ UNCHANGED <<stock_data, articles, now, called_at, res, prev, prev_args, flow>>
    /\ UNCHANGED tables

NextAnswer ==
    \/ ValidateStockData
    \/ GenerateResponse
    \/ GenerateComparisonResponse
    \/ StoreAnswer
    \/ ResolveFollowup

SpecAnswer == InitAnswer /\ [][NextAnswer]_vars

-----------------------------------------------------------------------------
(* A request to /api/ask *)

InitHandler ==
    /\ pc = "ask_received"
    /\ FlowIdle
    /\ user_text = PyNone
    /\ last_context = PyNone
    /\ stock_data = PyNone
    /\ articles = PyNone
    /\ now = Epoch
    /\ called_at = Epoch
    /\ res = PyNone
    /\ prev = PyNone
    /\ prev_args = PyNone
    /\ TablesIdle

\* answer=None
NoAnswer == "None"

\* AnalysisResponse(success=..., answer=..., confidence=..., confidence_score=...); the
\* other fields are left out
AnalysisResponse(success, answer, confidence, confidence_score) ==
    [success |-> success, answer |-> answer, confidence |-> confidence,
     confidence_score |-> confidence_score]

\* the response of the except branch, and of a failed fetch or generation
FailureResponse == AnalysisResponse(FALSE, NoAnswer, "LOW", 0)

\* the dict returned when the usage limit is hit
PaywallResponse ==
    [success |-> FALSE, confidence |-> "LOW", answer |-> "upgrade", paywall |-> TRUE]

\* handle_general_question(question, session_id)
handle_general_question(llm) ==
    IF llm = "text" THEN AnalysisResponse(TRUE, "general narrative", "MEDIUM", 60)
    ELSE AnalysisResponse(TRUE, "trouble connecting", "LOW", 40)

\* d.get(key, default) of a dict kept as the sequence of its items
ItemGet(d, key, default) ==
    IF \E i \in DOMAIN d : d[i].key = key
    THEN d[CHOOSE i \in DOMAIN d : d[i].key = key].value
    ELSE default

\* the level of the mean score
OverallConfidence(avg) ==
    IF avg >= 80 THEN "HIGH" ELSE IF avg >= 50 THEN "MEDIUM" ELSE "LOW"

\* request.question is read of the Request object of the web framework, which is
\* not part of the repository: the read raises AttributeError, or gives a text that
\* is blank or not
QuestionReads == {"AttributeError", "blank", "text"}

\* usage = track_usage(client_ip), and the paywall
AskTrackUsage ==
    /\ pc = "ask_received"
    /\ \E limit_hit \in BOOLEAN :
          IF limit_hit
          THEN pc' = "ask_returned" /\ response' = PaywallResponse
          ELSE pc' = "ask_admitted" /\ UNCHANGED response
    /\ UNCHANGED <<user_text, last_context, stock_data, articles, now, called_at, res,
                   prev, prev_args, intent, all_stock_data, all_articles,
                   per_ticker_validation, avg_confidence, overall_confidence>>
    /\ UNCHANGED tables

\* question = request.question.strip(); an empty question is rejected with status 400
AskReadQuestion ==
    /\ pc = "ask_admitted"
    /\ \E read \in QuestionReads :
          pc' = CASE read = "AttributeError" -> "ask_raised"
                  [] read = "blank" -> "ask_rejected"
                  [] read = "text" -> "ask_parse"
    /\ UNCHANGED <<user_text, last_context, stock_data, articles, now, called_at, res,
                   prev, prev_args, flow>>
    /\ UNCHANGED tables

\* Step 1: intent = parse_intent(question); a question without a parsed ticker is
\* answered by handle_general_question
AskParseIntent ==
    /\ pc = "ask_parse"
    /\ \E parsed \in ParsedIntents :
          /\ intent' = parsed
          /\ IF \/ ~Truthy(DictGet(parsed, "success"))
                \/ ~Truthy(PyOr(DictGetDefault(parsed, "tickers", PyList(<<>>)),
                                PyList(<<>>)))
             THEN /\ \E llm \in LlmOutcomes : response' = handle_general_question(llm)
                  /\ pc' = "ask_returned"
             ELSE /\ pc' = "ask_fetch"
                  /\ UNCHANGED response
    /\ UNCHANGED <<user_text, last_context, stock_data, articles, now, called_at, res,
                   prev, prev_args, all_stock_data, all_articles, per_ticker_validation,
                   avg_confidence, overall_confidence>>
    /\ UNCHANGED tables

\* Step 2: the bundles of the tickers whose fetch succeeded
AskFetch ==
    /\ pc = "ask_fetch"
    /\ LET tickers == intent.d.tickers.l
       IN  \E fetched \in [DOMAIN tickers -> FetchOutcomes(now)] :
              LET items == Tuple([i \in DOMAIN tickers |->
                                     [key |-> tickers[i],
                                      value |-> get_stock_data(tickers[i], fetched[i])]])
                  succeeded(item) == Truthy(DictGet(item.value, "success"))
              IN  /\ all_stock_data' = SelectSeq(items, succeeded)
                  /\ IF all_stock_data' = <<>>
                     THEN pc' = "ask_returned" /\ response' = FailureResponse
                     ELSE pc' = "ask_search" /\ UNCHANGED response
    /\ UNCHANGED <<user_text, last_context, stock_data, articles, now, called_at, res,
                   prev, prev_args, intent, all_articles, per_ticker_validation,
                   avg_confidence, overall_confidence>>
    /\ UNCHANGED tables

\* Step 3: the articles of every fetched ticker
AskSearch ==
    /\ pc = "ask_search"
    /\ \E found \in [DOMAIN all_stock_data -> FoundArticles] :
          all_articles' = Tuple([i \in DOMAIN all_stock_data |->
                                    [key |-> all_stock_data[i].key, value |-> found[i]]])
    /\ pc' = "ask_validate"
    /\ UNCHANGED <<user_text, last_context, stock_data, articles, now, called_at, res,
                   prev, prev_args, intent, all_stock_data, per_ticker_validation,
                   avg_confidence, overall_confidence, response>>
    /\ UNCHANGED tables

\* Step 4: validate_stock_data for every fetched ticker, the mean score and its level;
\* an exception is answered by the except branch
AskValidate ==
    /\ pc = "ask_validate"
    /\ LET outcomes ==
               Tuple([i \in DOMAIN all_stock_data |->
                         validate_stock_data(
                             all_stock_data[i].value,
                             ItemGet(all_articles, all_stock_data[i].key, PyList(<<>>)),
                             now)])
           confidences ==
               Tuple([i \in DOMAIN outcomes |-> outcomes[i].ret.confidence_score])
       IN  IF \E i \in DOMAIN outcomes : Raised(outcomes[i])
           THEN /\ pc' = "ask_returned"
                /\ response' = FailureResponse
                /\ UNCHANGED <<per_ticker_validation, avg_confidence, overall_confidence>>
           ELSE /\ per_ticker_validation' =
                       Tuple([i \in DOMAIN outcomes |->
                                 [key |-> all_stock_data[i].key, value |-> outcomes[i].ret]])
                /\ avg_confidence' = SumSeq(confidences) \div Len(confidences)
                /\ overall_confidence' = OverallConfidence(avg_confidence')
                /\ pc' = "ask_generate"
                /\ UNCHANGED response
    /\ UNCHANGED <<user_text, last_context, stock_data, articles, now, called_at, res,
                   prev, prev_args, intent, all_stock_data, all_articles>>
    /\ UNCHANGED tables

\* Step 5: the narrative of one ticker or of a comparison, and the response
AskGenerate ==
    /\ pc = "ask_generate"
    /\ \E llm \in LlmOutcomes :
          LET tickers == intent.d.tickers.l
              ticker == tickers[1]
              generated ==
                  IF Len(tickers) = 1
                  THEN Return(generate_response(
                                  intent,
                                  ItemGet(all_stock_data, ticker, PyNone),
                                  ItemGet(all_articles, ticker, PyList(<<>>)),
                                  ItemGet(per_ticker_validation, ticker, PyNone),
                                  llm))
                  ELSE generate_comparison_response(
                           intent, all_stock_data, all_articles, overall_confidence,
                           avg_confidence, llm)
          IN  response' =
                  IF Raised(generated) THEN FailureResponse
                  ELSE IF ~generated.ret.success THEN FailureResponse
                  ELSE AnalysisResponse(TRUE, generated.ret.answer,
                                        generated.ret.confidence,
                                        generated.ret.confidence_score)
    /\ pc' = "ask_returned"
    /\ UNCHANGED <<user_text, last_context, stock_data, articles, now, called_at, res,
                   prev, prev_args, intent, all_stock_data, all_articles,
                   per_ticker_validation, avg_confidence, overall_confidence>>
    /\ UNCHANGED tables

NextHandler ==
    \/ AskTrackUsage
    \/ AskReadQuestion
    \/ AskParseIntent
    \/ AskFetch
    \/ AskSearch
    \/ AskValidate
    \/ AskGenerate

SpecHandler == InitHandler /\ [][NextHandler]_vars

-----------------------------------------------------------------------------
(* Requests counted in usage_tracking *)

InitUsage ==
    /\ pc = "usage_idle"
    /\ TablesIdle
    /\ FlowIdle
    /\ user_text = PyNone
    /\ last_context = PyNone
    /\ stock_data = PyNone
    /\ articles = PyNone
    /\ now = Epoch
    /\ called_at = Epoch
    /\ res = PyNone
    /\ prev = PyNone
    /\ prev_args = PyNone

\* usage = track_usage(identifier), as ask_question calls it for the client address
TrackUsage ==
    \E identifier \in Identifiers :
        /\ pc \in {"usage_idle", "usage_tracked", "usage_marked"}
        /\ calls[identifier] < MaxCalls
        /\ LET o == track_usage(identifier, usage_tracking)
           IN  /\ usage_tracking' = o.table
               /\ usage' = o.ret
        /\ calls' = [calls EXCEPT ![identifier] = @ + 1]
        /\ last_call' = [identifier |-> identifier, nth |-> calls[identifier] + 1,
                         paid |-> marked[identifier]]
        /\ pc' = "usage_tracked"
        /\ UNCHANGED <<marked, cache, info>>
        /\ UNCHANGED <<user_text, last_context, stock_data, articles, now, called_at, res,
                       prev, prev_args, flow>>

\* mark_user_as_paid(client_reference_id), as the payment webhook calls it
MarkUserAsPaid ==
    \E identifier \in Identifiers :
        /\ pc \in {"usage_idle", "usage_tracked", "usage_marked"}
        /\ usage_tracking' = mark_user_as_paid(identifier, usage_tracking).table
        /\ marked' = [marked EXCEPT ![identifier] = TRUE]
        /\ pc' = "usage_marked"
        /\ UNCHANGED <<calls, usage, last_call, cache, info>>
        /\ UNCHANGED <<user_text, last_context, stock_data, articles, now, called_at, res,
                       prev, prev_args, flow>>

NextUsage == TrackUsage \/ MarkUserAsPaid

SpecUsage == InitUsage /\ [][NextUsage]_vars

-----------------------------------------------------------------------------
(* Company profiles through the cache *)

InitCache ==
    /\ pc = "cache_idle"
    /\ TablesIdle
    /\ FlowIdle
    /\ user_text = PyNone
    /\ last_context = PyNone
    /\ stock_data = PyNone
    /\ articles = PyNone
    /\ now = Epoch
    /\ called_at = Epoch
    /\ res = PyNone
    /\ prev = PyNone
    /\ prev_args = PyNone

\* info = get_company_info(ticker), with what the provider answers when it is asked; the
\* call is recorded with the row it found and the age of that row
GetCompanyInfo ==
    \E ticker \in CompanyTickers, provider \in ProviderOutcomes :
        /\ pc \in {"cache_idle", "company_returned"}
        /\ LET o == get_company_info(ticker, cache, now, provider)
               row == cache[<<Upper(ticker), "company_info">>]
           IN  /\ cache' = o.table
               /\ info' = [ret |-> o.ret, fetched |-> o.fetched,
                           found |-> row.t = "entry",
                           stored |-> IF row.t = "entry" THEN row.data ELSE PyNone,
                           age |-> IF row.t = "entry" THEN now - row.timestamp.minute
                                   ELSE 0]
        /\ pc' = "company_returned"
        /\ UNCHANGED <<usage_tracking, calls, marked, usage, last_call>>
        /\ UNCHANGED <<user_text, last_context, stock_data, articles, now, called_at, res,
                       prev, prev_args, flow>>

\* time passes
CacheClockTick ==
    /\ pc \in {"cache_idle", "company_returned"}
    /\ now + ClockStep(now) <= Epoch + MaxCacheDays * DefaultFreshness
    /\ now' = now + ClockStep(now)
    /\ UNCHANGED <<pc, user_text, last_context, stock_data, articles, called_at, res, prev,
                   prev_args, flow, tables>>

NextCache == GetCompanyInfo \/ CacheClockTick

SpecCache == InitCache /\ [][NextCache]_vars

-----------------------------------------------------------------------------
(* Properties of resolve_followup *)

ResolveCalled == pc \in {"resolve_returned", "resolve_repeated", "resolve_raised"}
ResolveReturned == pc \in {"resolve_returned", "resolve_repeated"}

\* the valid actions of the stored memory record, in their stored order
ValidActions ==
    LET loaded == _load_actions_from_memory(last_context)
    IN  IF Raised(loaded) THEN <<>> ELSE loaded.ret.actions

\* the keyword scores of the valid actions for the user text
Scores ==
    LET actions == ValidActions
    IN  Tuple([i \in DOMAIN actions |-> _score_action_match(user_text, actions[i])])

\* the highest of the scores, 0 when there is none
MaxScore(scores) ==
    IF scores = <<>> THEN 0
    ELSE scores[CHOOSE i \in DOMAIN scores : \A k \in DOMAIN scores : scores[k] <= scores[i]]

\* the scores without one occurrence of the highest
WithoutBest(scores) ==
    LET best == CHOOSE i \in DOMAIN scores : \A k \in DOMAIN scores : scores[k] <= scores[i]
    IN  SubSeq(scores, 1, best - 1) \o SubSeq(scores, best + 1, Len(scores))

\* there are two actions or more, and the best keyword score is less than 3 points above
\* the second best
NearTied ==
    LET scores == Scores
    IN  Len(scores) >= 2 /\ MaxScore(scores) < MaxScore(WithoutBest(scores)) + 3

NoOverlap ==
    LET scores == Scores
    IN  \A i \in DOMAIN scores : scores[i] = 0

\* the text has an ordinal reference to one of the valid actions
OrdinalReference ==
    LET ord_idx == _ordinal_pick(user_text)
    IN  ord_idx # NoIndex /\ ord_idx < Len(ValidActions)

\* the stored default_action_id
StoredDefault ==
    IF last_context.t = "dict" THEN DictGet(last_context, "default_action_id") ELSE PyNone

\* C1: when the memory record has at least one valid action and the ordinal reference of
\* the user text resolves to an index inside the action list, resolve_followup returns
\* kind=action with the action at that index and confidence 90, whatever the keyword
\* scores, the acknowledgment status and default_action_id are.
C1_OrdinalPrecedence ==
    (ResolveReturned /\ ValidActions # <<>> /\ OrdinalReference)
        => /\ res.kind = "action"
           /\ res.action = ValidActions[_ordinal_pick(user_text) + 1]
           /\ res.confidence = 90

\* "second earnings": the ordinal names the second action, the keywords the first
C1_Witness ==
    /\ ResolveReturned
    /\ Len(ValidActions) >= 2
    /\ _ordinal_pick(user_text) = 1
    /\ LET scores == Scores IN scores[1] >= 8 /\ scores[1] >= scores[2] + 3
    /\ res.kind = "action" /\ res.action = ValidActions[2] /\ res.confidence = 90

\* C2 as stated: whenever the two best keyword scores are near-tied (best < second + 3),
\* resolve_followup returns kind=clarify and never kind=action.
C2_NearTieAlwaysClarifies ==
    (ResolveReturned /\ NearTied) => res.kind = "clarify"

\* C2: whenever the two best keyword scores are near-tied (best < second + 3), no action
\* is chosen by keyword match; resolve_followup returns kind=clarify unless the text has
\* an in-bounds ordinal reference (step 1) or is an acknowledgment (step 3), and an action
\* it returns then comes from one of these two steps.
C2_NearTieNotGuessed ==
    (ResolveReturned /\ NearTied)
        => /\ res.confidence # 85
           /\ (~OrdinalReference /\ ~is_ack_or_continue(user_text)) => res.kind = "clarify"
           /\ res.kind = "action"
                 => \/ OrdinalReference /\ res.confidence = 90
                    \/ is_ack_or_continue(user_text) /\ res.confidence \in {80, 70}

\* scores 8 and 7: "deep dive" matches ids deep_dive_key_risks and dive
C2_Witness ==
    /\ ResolveReturned
    /\ MaxScore(Scores) = 8 /\ MaxScore(WithoutBest(Scores)) = 7
    /\ ~OrdinalReference /\ ~is_ack_or_continue(user_text)
    /\ res.kind = "clarify" /\ res.action = PyNone

\* C3: for an acknowledgment text such as "yeah do that" with no ordinal reference and no
\* keyword overlap with any action, and a default_action_id equal to the id of one of the
\* valid actions, resolve_followup returns kind=action, the chosen action's id equals
\* default_action_id, and confidence is 80.
C3_AckTakesDefault ==
    ( /\ ResolveReturned
      /\ is_ack_or_continue(user_text)
      /\ _ordinal_pick(user_text) = NoIndex
      /\ NoOverlap
      /\ StoredDefault \in {PyStr(a.id) : a \in Range(ValidActions)} )
        => /\ res.kind = "action"
           /\ res.action \in Range(ValidActions)
           /\ PyStr(res.action.id) = StoredDefault
           /\ res.confidence = 80

\* "yeah do that" with the second of two actions as the default
C3_Witness ==
    /\ ResolveReturned
    /\ user_text = PyStr(<<"y","e","a","h"," ","d","o"," ","t","h","a","t">>)
    /\ Len(ValidActions) >= 2
    /\ NoOverlap
    /\ StoredDefault = PyStr(ValidActions[2].id)
    /\ res.kind = "action" /\ res.action = ValidActions[2] /\ res.confidence = 80

\* the stored next_actions
StoredActions ==
    IF last_context.t = "dict" THEN DictGet(last_context, "next_actions") ELSE PyNone

\* a stored entry with a non-empty id and a non-empty query
HasIdAndQuery(entry) ==
    /\ entry.t = "dict"
    /\ \A field \in {"id", "query"} :
          /\ Truthy(DictGet(entry, field))
          /\ Strip(PyStrOf(DictGet(entry, field))) # <<>>

\* next_actions is empty or absent, or each of its entries lacks an id or a query
NoValidEntries ==
    \/ ~Truthy(StoredActions)
    \/ /\ Iterable(StoredActions)
       /\ \A entry \in Range(IterItems(StoredActions)) : ~HasIdAndQuery(entry)

\* C4: if the memory record yields zero valid actions (next_actions empty or absent, or
\* every entry lacks a non-empty id or a non-empty query), resolve_followup returns
\* kind=none with confidence 0, no action and no clarify prompt, for every user text.
C4_NoActionsNone ==
    (ResolveCalled /\ NoValidEntries)
        => /\ ResolveReturned
           /\ res.kind = "none" /\ res.confidence = 0
           /\ res.action = PyNone /\ res.clarify_prompt = PyNone

\* an ordinal or an acknowledgment against a list whose entries are all dropped
C4_Witness ==
    /\ ResolveReturned
    /\ StoredActions.t = "list" /\ StoredActions.l # <<>>
    /\ NoValidEntries
    /\ _ordinal_pick(user_text) = 0 \/ is_ack_or_continue(user_text)
    /\ res.kind = "none" /\ res.confidence = 0

\* C5: resolve_followup never raises to its caller, for any memory record.
C5_NeverRaises == pc # "resolve_raised"

\* C6: every FollowupResolution that resolve_followup returns is consistent with its
\* kind: kind is one of action, clarify, none; action is populated exactly when
\* kind=action, clarify_prompt exactly when kind=clarify; both are absent for kind=none.
C6_KindConsistent ==
    ResolveReturned
        => /\ res.kind \in {"action", "clarify", "none"}
           /\ (res.action # PyNone) <=> (res.kind = "action")
           /\ (res.clarify_prompt # PyNone) <=> (res.kind = "clarify")
           /\ res.kind = "action" => res.action \in Range(ValidActions)
           /\ res.kind = "clarify"
                 => res.clarify_prompt.t = "str" /\ res.clarify_prompt.s # <<>>

C6_Witness ==
    /\ ResolveReturned
    /\ res.kind = "clarify"
    /\ res.action = PyNone
    /\ res.clarify_prompt = PyStr(ClarifyPrompt(ValidActions))

-----------------------------------------------------------------------------
(* Properties of the scorer *)

ValidateReturned == pc \in {"validate_returned", "validate_repeated", "validate_restamped"}
ValidateCalled == ValidateReturned \/ pc = "validate_raised"

\* the price, company and historical blocks of sd are records or absent
RecordBlocks(sd) ==
    \A block \in {"current", "company", "historical"} :
        DictGet(sd, block).t \in {"none", "dict"}

\* the age in minutes of the price of sd at the clock reading clock
PriceAge(sd, clock) == clock - PriceTimestamp(sd).minute

\* sd has a price that is age minutes old, or less, at the last call
PricedWithin(sd, age) ==
    /\ DictGet(sd, "current").t = "dict"
    /\ Truthy(DictGet(DictGet(sd, "current"), "current_price"))
    /\ HasAge(sd)
    /\ PriceAge(sd, called_at) <= age

\* C7: when the success flag of the bundle is false, the scorer returns score 0, level
\* LOW and the missing list ["Failed to fetch any data"], whatever the blocks and the
\* articles are, and the validation result of a bundle of records has valid = false.
C7_FailedFetchScoresZero ==
    (ValidateCalled /\ DictGet(stock_data, "success") \in {PyFalse, PyNone})
        => /\ calculate_confidence(stock_data, articles, called_at)
                = Return([level |-> "LOW", score |-> 0,
                          missing |-> <<"Failed to fetch any data">>])
           /\ RecordBlocks(stock_data)
                 => /\ ValidateReturned
                    /\ res.confidence_score = 0
                    /\ res.confidence_level = "LOW"
                    /\ res.missing_data = <<"Failed to fetch any data">>
                    /\ res.valid = FALSE

\* a failed fetch whose blocks and articles would score 100
C7_Witness ==
    /\ ValidateReturned
    /\ DictGet(stock_data, "success") = PyFalse
    /\ PricedWithin(stock_data, 19)
    /\ DictGet(stock_data, "company").t = "dict"
    /\ DictGet(stock_data, "historical") = PyDict([data_points |-> PyInt(50)])
    /\ articles.t = "list" /\ Len(articles.l) = 4
    /\ res.confidence_score = 0 /\ res.valid = FALSE

\* sd has a company block with a name, a description, a sector and an industry
FullProfile(sd) ==
    /\ DictGet(sd, "company").t = "dict"
    /\ \A field \in {"company_name", "description", "sector", "industry"} :
          Truthy(DictGet(DictGet(sd, "company"), field))

\* the bundle of C8 at the last call
FullFreshBundle ==
    /\ DictGet(stock_data, "success") = PyTrue
    /\ PricedWithin(stock_data, 19)
    /\ FullProfile(stock_data)
    /\ DictGet(stock_data, "historical") = PyDict([data_points |-> PyInt(50)])
    /\ articles.t = "list" /\ Len(articles.l) = 4

\* C8: a successful bundle with a current price, a timestamp less than 20 minutes old, a
\* full company profile, historical data_points = 50 and 4 articles yields
\* confidence_score 100 and level HIGH.
C8_FullBundleScoresHundred ==
    (ValidateCalled /\ FullFreshBundle)
        => /\ ValidateReturned
           /\ res.confidence_score = 100
           /\ res.confidence_level = "HIGH"
           /\ res.valid = TRUE

\* the components of the full bundle add up to 30 + 25 + 20 + 30 = 105
C8_Witness ==
    /\ ValidateReturned
    /\ FullFreshBundle
    /\ PriceComponent(DictGet(stock_data, "current"), called_at).points
         + CompanyComponent(DictGet(stock_data, "company"))
         + HistoricalComponent(DictGet(stock_data, "historical")).points
         + ArticleComponent(articles).points = 105
    /\ res.confidence_score = 100

\* the last two calls had bundles with a price age, equal but for the price timestamp
ComparableCalls ==
    /\ pc \in {"validate_repeated", "validate_restamped"}
    /\ HasAge(prev_args.stock_data) /\ HasAge(stock_data)
    /\ articles = prev_args.articles
    /\ \A ts \in IsoTimestamps : Restamped(stock_data, ts) = Restamped(prev_args.stock_data, ts)

\* C9: the score is monotonic in price freshness: of two bundles and article lists that
\* are equal but for the price timestamp, the one with the smaller age never scores lower
\* than the one with the larger age.
C9_FresherNeverLower ==
    ComparableCalls
        => LET earlier == PriceAge(prev_args.stock_data, prev_args.now)
               later == PriceAge(stock_data, called_at)
           IN  /\ earlier <= later => prev.confidence_score >= res.confidence_score
               /\ later <= earlier => res.confidence_score >= prev.confidence_score

\* a price aged 10 minutes against the same bundle with a price aged 2 days
C9_Witness ==
    /\ ComparableCalls
    /\ pc = "validate_restamped"
    /\ Truthy(DictGet(DictGet(stock_data, "current"), "current_price"))
    /\ PriceAge(prev_args.stock_data, prev_args.now) = 10
    /\ PriceAge(stock_data, called_at) = 2880
    /\ prev.confidence_score > res.confidence_score

-----------------------------------------------------------------------------
(* Properties of both functions *)

Repeated == pc \in {"resolve_repeated", "validate_repeated"}

\* the arguments of the repeated call are those of the call before it
SameArguments ==
    /\ pc = "resolve_repeated"
          => user_text = prev_args.user_text /\ last_context = prev_args.last_context
    /\ pc = "validate_repeated"
          => stock_data = prev_args.stock_data /\ articles = prev_args.articles

-----------------------------------------------------------------------------
(* Further properties of the scorer *)

Succeeded(sd) == DictGet(sd, "success") = PyTrue

\* C11: for every input the confidence_score lies in 0..100, confidence_level is HIGH
\* exactly when the score is at least 80, MEDIUM exactly when it is in 50..79 and LOW
\* exactly when it is below 50, and valid is true exactly when the level is HIGH or MEDIUM.
C11_ScoreLevelValid ==
    ValidateReturned
        => /\ res.confidence_score \in 0..100
           /\ res.confidence_level \in {"HIGH", "MEDIUM", "LOW"}
           /\ res.confidence_level = "HIGH" <=> res.confidence_score >= 80
           /\ res.confidence_level = "MEDIUM"
                 <=> (50 <= res.confidence_score /\ res.confidence_score < 80)
           /\ res.confidence_level = "LOW" <=> res.confidence_score < 50
           /\ res.valid <=> res.confidence_level \in {"HIGH", "MEDIUM"}

\* a score on the border of HIGH
C11_Witness ==
    /\ ValidateReturned
    /\ res.confidence_score = 80
    /\ res.confidence_level = "HIGH"
    /\ res.valid

\* C13: a successful bundle with a price stamped now, a complete company profile and
\* historical data_points = 30, validated without an articles argument, is classified
\* HIGH and valid.
C13_NoSearchStillHigh ==
    ( /\ ValidateCalled
      /\ Succeeded(stock_data)
      /\ PricedWithin(stock_data, 0)
      /\ FullProfile(stock_data)
      /\ DictGet(stock_data, "historical") = PyDict([data_points |-> PyInt(30)])
      /\ articles = PyNone )
        => /\ ValidateReturned
           /\ res.confidence_level = "HIGH"
           /\ res.valid

\* C14: a successful bundle that has only a fresh current price (company and historical
\* both absent), validated without an articles argument, is classified MEDIUM and valid.
C14_PriceOnlyMedium ==
    ( /\ ValidateCalled
      /\ Succeeded(stock_data)
      /\ PricedWithin(stock_data, 19)
      /\ DictGet(stock_data, "company") = PyNone
      /\ DictGet(stock_data, "historical") = PyNone
      /\ articles = PyNone )
        => /\ ValidateReturned
           /\ res.confidence_level = "MEDIUM"
           /\ res.valid

\* C15: the scorer never raises, whatever the shape of the optional fields of the bundle.
C15_ScorerNeverRaises == pc # "validate_raised"

\* the bundle has no price: no price block, or one without a current_price
NoPrice(sd) ==
    \/ DictGet(sd, "current") = PyNone
    \/ /\ DictGet(sd, "current").t = "dict"
       /\ ~Truthy(DictGet(DictGet(sd, "current"), "current_price"))

\* the price component that C19 states, for the clock reading of the call
StatedPriceComponent(sd, clock) ==
    IF NoPrice(sd) THEN [points |-> 0, notes |-> <<"Current price not available">>]
    ELSE IF ~HasAge(sd) THEN [points |-> 20, notes |-> <<>>]
    ELSE IF PriceAge(sd, clock) < 20 THEN [points |-> 30, notes |-> <<>>]
    ELSE IF PriceAge(sd, clock) < 60 THEN [points |-> 25, notes |-> <<>>]
    ELSE IF PriceAge(sd, clock) < 24 * 60
         THEN [points |-> 18, notes |-> <<"Price data is from earlier today">>]
    ELSE [points |-> 10, notes |-> <<"Price data is over 1 day old">>]

PriceNotes ==
    {"Current price not available", "Price data is from earlier today",
     "Price data is over 1 day old"}

IsPriceNote(note) == note \in PriceNotes

\* the other three components are absent
PriceAlone == 
    /\ DictGet(stock_data, "company") = PyNone
    /\ DictGet(stock_data, "historical") = PyNone
    /\ articles = PyNone

\* C19: the price component is 30 for an age under 20 minutes, 25 under 1 hour, 18 with
\* the note "Price data is from earlier today" under 24 hours, 10 with the note "Price
\* data is over 1 day old" from 24 hours on, 20 with no note for a price whose timestamp
\* is missing or cannot be read, and 0 with the note "Current price not available" when
\* there is no price.  With the other components absent it is the whole score; in every
\* result its note is the only price note of the missing list.
C19_PriceComponent ==
    (ValidateReturned /\ Succeeded(stock_data))
        => LET stated == StatedPriceComponent(stock_data, called_at)
           IN  /\ stated.points <= 30
               /\ SelectSeq(res.missing_data, IsPriceNote) = stated.notes
               /\ res.confidence_score <= stated.points + 75
               /\ PriceAlone
                     => /\ res.confidence_score = stated.points
                        /\ res.missing_data
                             = stated.notes \o <<"Company information not available",
                                                 "Historical data not available",
                                                 "Article search not performed">>

\* a price of earlier today, alone in its bundle
C19_Witness ==
    /\ ValidateReturned /\ Succeeded(stock_data)
    /\ PriceAlone
    /\ PricedWithin(stock_data, 1439) /\ ~PricedWithin(stock_data, 59)
    /\ res.confidence_score = 18
    /\ res.missing_data[1] = "Price data is from earlier today"

\* the article component that C20 states
StatedArticleComponent(arts) ==
    IF arts = PyNone THEN [points |-> 0, notes |-> <<"Article search not performed">>]
    ELSE IF Len(arts.l) = 0
         THEN [points |-> 0, notes |-> <<"No recent articles found from trusted sources">>]
    ELSE IF Len(arts.l) = 1
         THEN [points |-> 10, notes |-> <<"Very limited article coverage (only 1 article)">>]
    ELSE IF Len(arts.l) = 2
         THEN [points |-> 20,
               notes |-> <<"Limited recent article coverage (only 2 articles)">>]
    ELSE [points |-> 30, notes |-> <<>>]

ArticleNotes ==
    {"Article search not performed", "No recent articles found from trusted sources",
     "Very limited article coverage (only 1 article)",
     "Limited recent article coverage (only 2 articles)"}

IsArticleNote(note) == note \in ArticleNotes

\* the other three components are absent
ArticlesAlone ==
    /\ NoPrice(stock_data)
    /\ DictGet(stock_data, "company") = PyNone
    /\ DictGet(stock_data, "historical") = PyNone

\* C20: the article component tells a search that was never made from one that found
\* nothing: it is 0 with "Article search not performed" for an absent articles argument,
\* 0 with "No recent articles found from trusted sources" for an empty list, 10 and 20
\* with their coverage notes for 1 and 2 articles, and 30 with no note for 3 or more.
C20_ArticleComponent ==
    (ValidateReturned /\ Succeeded(stock_data))
        => LET stated == StatedArticleComponent(articles)
           IN  /\ SelectSeq(res.missing_data, IsArticleNote) = stated.notes
               /\ res.article_count = (IF articles = PyNone THEN 0 ELSE Len(articles.l))
               /\ ArticlesAlone
                     => /\ res.confidence_score = stated.points
                        /\ res.missing_data
                             = <<"Current price not available",
                                 "Company information not available",
                                 "Historical data not available">> \o stated.notes

\* a search that found nothing, alone in its bundle
C20_Witness ==
    /\ ValidateReturned /\ Succeeded(stock_data)
    /\ ArticlesAlone
    /\ articles = PyList(<<>>)
    /\ res.confidence_score = 0
    /\ res.missing_data[4] = "No recent articles found from trusted sources"

-----------------------------------------------------------------------------
(* The historical component and the missing-data list *)

\* the number of data points of the block historical, 0 when it has no such field
DataPoints(historical) == DictGetDefault(historical, "data_points", PyInt(0)).n

\* the historical component of a block that is there
PresentHistoricalComponent(historical) ==
    IF DataPoints(historical) > 20 THEN [points |-> 20, notes |-> <<>>]
    ELSE IF DataPoints(historical) > 5
         THEN [points |-> 12, notes |-> <<"Limited historical data">>]
    ELSE [points |-> 5, notes |-> <<"Very limited historical data">>]

NoHistoricalComponent == [points |-> 0, notes |-> <<"Historical data not available">>]

HistoricalNotes ==
    {"Limited historical data", "Very limited historical data",
     "Historical data not available"}

IsHistoricalNote(note) == note \in HistoricalNotes

\* the other three components are absent
HistoricalAlone ==
    /\ DictGet(stock_data, "current") = PyNone
    /\ DictGet(stock_data, "company") = PyNone
    /\ articles = PyNone

\* the result res carries the historical component stated: its note is the only
\* historical note of the missing list, and with the other components absent its
\* points are the whole score
CarriesHistorical(stated) ==
    /\ SelectSeq(res.missing_data, IsHistoricalNote) = stated.notes
    /\ res.confidence_score <= stated.points + 85
    /\ HistoricalAlone
          => /\ res.confidence_score = stated.points
             /\ res.missing_data
                  = <<"Current price not available", "Company information not available">>
                    \o stated.notes \o <<"Article search not performed">>

\* C21 as stated: the historical component is 20 for more than 20 data points, 12 with
\* "Limited historical data" for 6 to 20, 5 with "Very limited historical data" whenever
\* a historical block is present with at most 5 data points or no data_points field, and
\* 0 with "Historical data not available" only when the block is entirely absent.
C21_HistoricalComponent ==
    (ValidateReturned /\ Succeeded(stock_data))
        => LET historical == DictGet(stock_data, "historical")
           IN  CarriesHistorical(IF historical = PyNone THEN NoHistoricalComponent
                                 ELSE PresentHistoricalComponent(historical))

\* C21, amended: a historical block that is an empty dict counts as absent; 5 with "Very
\* limited historical data" is the component of a non-empty block with at most 5 data
\* points or no data_points field.
C21_HistoricalComponentNonEmpty ==
    (ValidateReturned /\ Succeeded(stock_data))
        => LET historical == DictGet(stock_data, "historical")
           IN  CarriesHistorical(IF historical = PyNone \/ historical = PyDict(<<>>)
                                 THEN NoHistoricalComponent
                                 ELSE PresentHistoricalComponent(historical))

\* a block with a total_return and no data_points field, alone in its bundle
C21_Witness ==
    /\ ValidateReturned /\ Succeeded(stock_data)
    /\ HistoricalAlone
    /\ DictGet(stock_data, "historical") = PyDict([total_return |-> PyInt(-13)])
    /\ res.confidence_score = 5
    /\ res.missing_data[3] = "Very limited historical data"

-----------------------------------------------------------------------------
(* Nothing missing *)

\* C28: for every successful bundle an empty missing_data list implies a score of at
\* least 90 and the level HIGH; every MEDIUM or LOW result carries at least one
\* missing-data item, and the MEDIUM recommendation names at least one item.
C28_NothingMissingIsHigh ==
    (ValidateReturned /\ Succeeded(stock_data))
        => /\ res.missing_data = <<>>
                 => res.confidence_score >= 90 /\ res.confidence_level = "HIGH"
           /\ res.confidence_level \in {"MEDIUM", "LOW"} => Len(res.missing_data) >= 1
           /\ res.confidence_level = "MEDIUM"
                 => /\ Len(res.recommendation) >= 2
                    /\ res.recommendation[2] = res.missing_data[1]

\* a price without a timestamp, a company with a name alone, a full history and three
\* articles: nothing is missing at 20 + 20 + 20 + 30
C28_Witness ==
    /\ ValidateReturned /\ Succeeded(stock_data)
    /\ res.missing_data = <<>>
    /\ res.confidence_score = 90
    /\ res.confidence_level = "HIGH"

-----------------------------------------------------------------------------
(* Further properties of resolve_followup *)

\* the highest keyword score is at least 8 and at least 3 above the second highest
ClearWinner ==
    LET scores == Scores
    IN  MaxScore(scores) >= 8 /\ MaxScore(scores) >= MaxScore(WithoutBest(scores)) + 3

\* the call went past steps 1 and 2 with an acknowledgment
ReachedAckStep ==
    /\ ResolveReturned
    /\ is_ack_or_continue(user_text)
    /\ ValidActions # <<>>
    /\ ~OrdinalReference
    /\ ~ClearWinner

\* the stored default_action_id is the id of no valid action
StaleDefault ==
    /\ Truthy(StoredDefault)
    /\ StoredDefault \notin {PyStr(a.id) : a \in Range(ValidActions)}

\* C17: on an acknowledgment that reaches step 3, when default_action_id is absent or
\* matches no valid action, resolve_followup chooses the first valid action; for a stale
\* id the result has confidence 70 and a reason other than that of the default action.
C17_MissingDefaultTakesFirst ==
    (ReachedAckStep /\ (~Truthy(StoredDefault) \/ StaleDefault))
        => /\ res.kind = "action"
           /\ res.action = ValidActions[1]
           /\ ~Truthy(StoredDefault) => res.confidence = 80
           /\ StaleDefault
                 => /\ res.confidence = 70
                    /\ res.reason # [rule |-> "ack_or_continue -> default_action"]

\* an acknowledgment against two actions and a default id that names neither
C17_Witness ==
    /\ ReachedAckStep
    /\ StaleDefault
    /\ Len(ValidActions) >= 2
    /\ res.action = ValidActions[1]
    /\ res.confidence = 70

\* the first position of the highest score
FirstBest ==
    LET scores == Scores
    IN  CHOOSE i \in DOMAIN scores :
            /\ scores[i] = MaxScore(scores)
            /\ \A k \in DOMAIN scores : scores[k] = MaxScore(scores) => i <= k

\* C18: when no in-bounds ordinal is present, resolve_followup selects by keyword exactly
\* when the highest score is at least 8 and at least 3 above the second highest (0 for a
\* single action); the selected action is the highest-scoring one and the result has
\* confidence 85 and reports the score and the margin.
C18_KeywordSelection ==
    LET actions == ValidActions
        scores == Tuple([i \in DOMAIN actions |->
                            _score_action_match(user_text, actions[i])])
        best == MaxScore(scores)
        second == MaxScore(WithoutBest(scores))
        clear == best >= 8 /\ best >= second + 3
        first == CHOOSE i \in DOMAIN scores :
                     scores[i] = best /\ \A k \in DOMAIN scores : scores[k] = best => i <= k
    IN  (ResolveReturned /\ actions # <<>> /\ ~OrdinalReference)
            => /\ clear <=> res.confidence = 85
               /\ clear
                     => /\ res.kind = "action"
                        /\ res.action = actions[first]
                        /\ res.reason = [rule |-> "keyword_match", score |-> best,
                                         margin |-> best - second]

\* a clear winner that is not the first of the list, against a second that scores too
C18_Witness ==
    /\ ResolveReturned
    /\ ~OrdinalReference
    /\ Len(ValidActions) >= 2
    /\ MaxScore(WithoutBest(Scores)) > 0
    /\ FirstBest # 1
    /\ res.kind = "action" /\ res.confidence = 85 /\ res.action = ValidActions[FirstBest]

-----------------------------------------------------------------------------
(* The keyword score *)

\* the number of the distinct tokens of the sequence toks that occur in the sequence others
DistinctAmong(toks, others) ==
    LET among == Range(others)
    IN  Cardinality({i \in DOMAIN toks :
                        /\ toks[i] \in among
                        /\ \A k \in 1..(i - 1) : toks[k] # toks[i]})

\* the credit of one keyword phrase: 10 for a phrase all of whose tokens are user tokens,
\* 3 for each user token of the phrase otherwise
StatedKeywordCredit(utoks, kw) ==
    LET kw_toks == _tokens(PyStr(kw))
    IN  IF kw_toks # <<>> /\ \A i \in DOMAIN kw_toks : kw_toks[i] \in Range(utoks)
        THEN 10
        ELSE 3 * DistinctAmong(utoks, kw_toks)

\* the keyword score of the action for the text, as C22 states it
StatedScore(text, action) ==
    LET utoks == _tokens(text)
    IN  IF utoks = <<>> THEN 0
        ELSE 4 * DistinctAmong(utoks, FindRuns(Lower(action.id), AlnumLower))
             + SumSeq(Tuple([i \in DOMAIN action.keywords |->
                                StatedKeywordCredit(utoks, action.keywords[i])]))
             + 2 * DistinctAmong(utoks, _tokens(PyStr(action.label)))

\* C22: the keyword score of an action against a user text is 4 times the number of
\* distinct user tokens among the sub-tokens of the id, plus for each keyword phrase
\* either 10 (all the tokens of the phrase are user tokens) or 3 for each overlapping
\* token, never both, plus 2 times the number of distinct user tokens among the tokens of
\* the label; it is 0 for a text without tokens.  The scores that resolve_followup reports
\* in its reason are the two highest of these.
C22_KeywordScore ==
    (ResolveReturned /\ res.kind # "none")
        => LET actions == ValidActions
               stated == Tuple([i \in DOMAIN actions |-> StatedScore(user_text, actions[i])])
               best == MaxScore(stated)
               second == MaxScore(WithoutBest(stated))
           IN  /\ \A i \in DOMAIN actions :
                     _score_action_match(user_text, actions[i]) = stated[i]
               /\ _tokens(user_text) = <<>> => \A i \in DOMAIN actions : stated[i] = 0
               /\ res.reason.rule = "keyword_match"
                     => res.reason.score = best /\ res.reason.margin = best - second
               /\ res.reason.rule = "ambiguous"
                     => res.reason.best_score = best /\ res.reason.second_score = second

\* "deep dive" against the earnings action (id 8, phrase 10, label 2) and the value action
\* (id 4, one token of a phrase 3)
C22_Witness ==
    /\ ResolveReturned
    /\ user_text = PyStr(<<"d","e","e","p"," ","d","i","v","e">>)
    /\ Len(ValidActions) = 2
    /\ StatedScore(user_text, ValidActions[1]) = 20
    /\ StatedScore(user_text, ValidActions[2]) = 7
    /\ res.reason = [rule |-> "keyword_match", score |-> 20, margin |-> 13]

-----------------------------------------------------------------------------
(* The clarification *)

\* what the prompt shows of an action: its label, its id when the label is empty
ShownAs(action) == IF action.label = <<>> THEN action.id ELSE action.label

\* the prompt that numbers the first three of the actions from 1
StatedPrompt(actions) ==
    <<"Q","u","i","c","k"," ","c","h","e","c","k",":"," ","w","h","i","c","h"," ",
      "o","n","e"," ","d","i","d"," ","y","o","u"," ","m","e","a","n"," ","U+2014"," ">>
    \o <<"1", ")", " ">> \o ShownAs(actions[1])
    \o (IF Len(actions) >= 2 THEN <<";", " ", "2", ")", " ">> \o ShownAs(actions[2])
        ELSE <<>>)
    \o (IF Len(actions) >= 3 THEN <<";", " ", "3", ")", " ">> \o ShownAs(actions[3])
        ELSE <<>>)
    \o <<"?">>

\* C23: when there is a valid action and none of the ordinal selection, the keyword
\* selection and the acknowledgment resolves, resolve_followup returns kind=clarify with
\* confidence 40 and a prompt that lists, numbered from 1 in their stored order, the labels
\* of at most the first 3 valid actions, with the id in place of an empty label.
C23_ClarifyFallback ==
    LET actions == ValidActions
        ord_idx == _ordinal_pick(user_text)
    IN  ( /\ ResolveReturned
          /\ actions # <<>>
          /\ ~(ord_idx # NoIndex /\ ord_idx < Len(actions))
          /\ ~is_ack_or_continue(user_text)
          /\ ~ClearWinner )
            => /\ res.kind = "clarify"
               /\ res.confidence = 40
               /\ res.clarify_prompt = PyStr(StatedPrompt(actions))

\* four valid actions, the second without a label: the prompt shows three of them
C23_Witness ==
    /\ ResolveReturned
    /\ Len(ValidActions) = 4
    /\ ValidActions[2].label = <<>>
    /\ res.kind = "clarify"
    /\ res.clarify_prompt = PyStr(StatedPrompt(SubSeq(ValidActions, 1, 3)))

-----------------------------------------------------------------------------
(* The order of the steps *)

\* C24: the steps are tried in the order ordinal, keyword, acknowledgment, clarify: the
\* confidence of a result is 90 for an in-bounds ordinal, else 85 for a clear winner of
\* the keyword scores, else 80 or 70 for an acknowledgment, else 40; an acknowledgment
\* text that also gives an action other than the default a score of at least 8 with a
\* margin of at least 3 gets that action with confidence 85, not the default with 80.
C24_StepOrder ==
    (ResolveReturned /\ ValidActions # <<>>)
        => LET ordinal == OrdinalReference
               ack == is_ack_or_continue(user_text)
               clear == ClearWinner
           IN  IF ordinal THEN res.confidence = 90
               ELSE IF clear
               THEN /\ res.confidence = 85
                    /\ ack => /\ res.kind = "action"
                              /\ res.action = ValidActions[FirstBest]
                              /\ res.reason.rule = "keyword_match"
               ELSE IF ack THEN res.confidence \in {80, 70}
               ELSE res.confidence = 40

\* "yeah deep dive" with the risks action as the default: the earnings action scores 20
\* against 8
C24_Witness ==
    /\ ResolveReturned
    /\ is_ack_or_continue(user_text)
    /\ ~OrdinalReference
    /\ ClearWinner
    /\ StoredDefault \in {PyStr(a.id) : a \in Range(ValidActions)}
    /\ PyStr(ValidActions[FirstBest].id) # StoredDefault
    /\ res.kind = "action" /\ res.confidence = 85
    /\ res.action = ValidActions[FirstBest]

-----------------------------------------------------------------------------
(* The first ordinal token *)

\* the positions of the ordinal words among the tokens of the user text
OrdinalPositions ==
    LET toks == _tokens(user_text)
    IN  {i \in DOMAIN toks : toks[i] \in OrdinalWords}

\* the index that the first ordinal word of the user text names
FirstOrdinal ==
    LET toks == _tokens(user_text)
        ords == OrdinalPositions
    IN  _ORDINAL_MAP[toks[CHOOSE i \in ords : \A k \in ords : i <= k]]

\* C25: only the first ordinal token of the text is considered: when it names an index
\* outside the action list, step 1 does not fire even when a later ordinal token or an
\* "option N" pattern of the same text is in bounds; "option 0" selects nothing; the
\* resolution goes on with the keyword scores, the acknowledgment and the clarification
\* and returns without an error.
C25_FirstOrdinalOnly ==
    /\ (ResolveCalled /\ ValidActions # <<>>) => ResolveReturned
    /\ (ResolveReturned /\ ValidActions # <<>>)
          => /\ (OrdinalPositions # {} /\ FirstOrdinal < Len(ValidActions))
                   => /\ res.confidence = 90
                      /\ res.action = ValidActions[FirstOrdinal + 1]
             /\ (OrdinalPositions # {} /\ FirstOrdinal >= Len(ValidActions))
                   => /\ res.confidence \in {85, 80, 70, 40}
                      /\ res.reason.rule # "ordinal_pick"
             /\ _normalize_text(user_text) = <<"o","p","t","i","o","n"," ","0">>
                   => /\ res.confidence \in {85, 80, 70, 40}
                      /\ res.reason.rule # "ordinal_pick"

\* "fourth option 2" against two or three actions: "fourth" is out of bounds, and
\* "option 2", in bounds, is not looked at
C25_Witness ==
    /\ ResolveReturned
    /\ user_text = PyStr(<<"f","o","u","r","t","h"," ","o","p","t","i","o","n"," ","2">>)
    /\ Len(ValidActions) \in {2, 3}
    /\ res.kind = "clarify"
    /\ res.confidence = 40

-----------------------------------------------------------------------------
(* Acceptance as whole words *)

\* the acceptance words and phrases, each as its sequence of tokens
AcceptancePhrases ==
    {_tokens(PyStr(p)) : p \in Range(_ACK_PREFIXES) \cup _ACK_SINGLETONS \cup AckTokens}

\* the tokens of the user text hold an acceptance word or phrase, token for token
AcceptsInWholeWords ==
    LET toks == _tokens(user_text)
    IN  \E phrase \in AcceptancePhrases :
            \E i \in DOMAIN toks :
                /\ i + Len(phrase) - 1 <= Len(toks)
                /\ SubSeq(toks, i, i + Len(phrase) - 1) = phrase

\* C26: the acknowledgment step fires only for a text that holds an acceptance word or
\* phrase as whole words: a text without one, such as "kilowatt" or "yesterday", whose
\* first word only begins with the letters of an acceptance entry, is no acknowledgment
\* and, with no ordinal and no clear keyword winner, resolves to clarify and not to the
\* default action.
C26_AckOnlyWholeWords ==
    ( /\ ResolveReturned
      /\ ValidActions # <<>>
      /\ ~AcceptsInWholeWords
      /\ ~OrdinalReference
      /\ ~ClearWinner )
        => /\ ~is_ack_or_continue(user_text)
           /\ res.kind = "clarify"
           /\ res.confidence \notin {80, 70}

-----------------------------------------------------------------------------
(* Positions after the malformed entries are dropped *)

\* the entries of a stored list that have an id and a query, in their stored order
KeptEntries ==
    IF StoredActions.t = "list" THEN SelectSeq(StoredActions.l, HasIdAndQuery) ELSE <<>>

\* the id and the label of a stored entry, stripped as the loader strips them
IdAndLabel(entry) ==
    [id |-> Strip(PyStrOf(DictGet(entry, "id"))),
     label |-> Strip(PyStrOf(PyOr(DictGet(entry, "label"), PyStr(<<>>))))]

\* C27: the ordinal indices, the first-action fallback and the listing of the
\* clarification all refer to positions in the list of the valid actions that is left
\* when the malformed entries are dropped, in their stored order: for stored next_actions
\* [invalid, A, B], "the first one" resolves to A and "the second one" to B.
C27_PositionsAmongValid ==
    (ResolveReturned /\ KeptEntries # <<>>)
        => LET kept == Tuple([i \in DOMAIN KeptEntries |-> IdAndLabel(KeptEntries[i])])
               ord_idx == _ordinal_pick(user_text)
           IN  /\ res.kind # "none"
               /\ (ord_idx # NoIndex /\ ord_idx < Len(kept))
                     => /\ res.confidence = 90
                        /\ res.action.id = kept[ord_idx + 1].id
                        /\ res.action.label = kept[ord_idx + 1].label
               /\ (res.confidence = 70 \/ (res.confidence = 80 /\ ~Truthy(StoredDefault)))
                     => /\ res.action.id = kept[1].id
                        /\ res.action.label = kept[1].label
               /\ res.kind = "clarify" => res.clarify_prompt = PyStr(StatedPrompt(kept))

\* a stored list of an entry that is dropped and two valid ones, and a text that names
\* the second: the third stored entry is chosen
C27_Witness ==
    /\ ResolveReturned
    /\ StoredActions.t = "list"
    /\ Len(StoredActions.l) = 3
    /\ ~HasIdAndQuery(StoredActions.l[1])
    /\ Len(KeptEntries) = 2
    /\ _ordinal_pick(user_text) = 1
    /\ res.kind = "action"
    /\ res.action.id = IdAndLabel(StoredActions.l[3]).id
    /\ res.action.id # IdAndLabel(StoredActions.l[2]).id

-----------------------------------------------------------------------------
(* Properties of the generated answers *)

\* an answer was generated
Answered == pc \in {"generate_returned", "call_resolve", "resolve_returned"}
                /\ response.success

\* the ids of the next actions
ActionIds(next_actions) ==
    Tuple([i \in DOMAIN next_actions |-> next_actions[i].d.id.s])

\* C16: every generated answer, of a single ticker or of a comparison, has 1 to 3 next
\* actions, each with a non-empty id that no other action of the list has and a
\* non-empty query, and a default_action_id that is the id of one of them; the loader
\* of the next turn keeps every action and the default, and the resolver finds actions.
C16_AnswerCarriesActions ==
    Answered =>
        LET next_actions == response.next_actions.l
            ids == ActionIds(next_actions)
            loaded == _load_actions_from_memory(
                          Memory(response.next_actions, response.default_action_id))
        IN  /\ Len(next_actions) \in 1..3
            /\ \A i \in DOMAIN next_actions :
                  /\ ids[i] # <<>>
                  /\ next_actions[i].d.query.s # <<>>
                  /\ \A j \in DOMAIN next_actions : i # j => ids[i] # ids[j]
            /\ \E i \in DOMAIN next_actions : response.default_action_id = PyStr(ids[i])
            /\ ~Raised(loaded)
            /\ Tuple([i \in DOMAIN loaded.ret.actions |-> loaded.ret.actions[i].id]) = ids
            /\ loaded.ret.default_id = response.default_action_id
            /\ pc = "resolve_returned" =>
                  /\ res.kind # "none"
                  /\ res.kind = "action" => \E i \in DOMAIN ids : res.action.id = ids[i]

\* an answer for an outlook question about TSLA, where four actions are derived and the
\* fourth is cut, was followed up
C16_Witness ==
    /\ pc = "resolve_returned"
    /\ Answered
    /\ "ticker" \in DOMAIN response
    /\ response.ticker = Tsla
    /\ Len(response.next_actions.l) = 3
    /\ response.default_action_id = DeepDiveEarnings(Tsla.s).d.id
    /\ res.kind = "action"

-----------------------------------------------------------------------------
(* Properties of the request flow *)

\* the request was answered with a narrative of the fetched data
Narrated ==
    /\ pc = "ask_returned"
    /\ per_ticker_validation # <<>>
    /\ response.success

-----------------------------------------------------------------------------
(* Properties of the usage counter *)

\* the stored count of an identifier, 0 without a row
StoredCount(identifier) ==
    IF usage_tracking[identifier].t = "row" THEN usage_tracking[identifier].count ELSE 0

-----------------------------------------------------------------------------
(* Properties of the company profile cache *)

\* C30: a company profile that get_company_info stored in the cache is served from the
\* cache, without a new fetch from the provider, for 30 days after it was stored, and is
\* fetched again only once it is older than that.
C30_ProfileCachedThirtyDays ==
    (pc = "company_returned" /\ info.found)
        => /\ info.age < 30 * 24 * 60 => (~info.fetched /\ info.ret = info.stored)
           /\ info.fetched => info.age >= 30 * 24 * 60

====
